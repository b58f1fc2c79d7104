--------------------------- MODULE PairingProofs ---------------------------
(***************************************************************************)
(* Theorems about Pairing, for any machines, installations, codes and      *)
(* bounds: what the registries, the messages on their way and the history  *)
(* have to do with each other, and what follows for pairings, secrets,     *)
(* codes and addresses.                                                    *)
(***************************************************************************)
EXTENDS Pairing, TLAPS, FiniteSetTheorems

\* What a machine says of itself, and what a registry keeps of one.
Device == [addr : Machine, paired : BOOLEAN, isSelf : BOOLEAN, alias : {None, "alias"},
           synced : Nat \cup {None}, seen : Nat, online : {TRUE}, uid : Machine \cup {None},
           pairedAt : Nat]
Row == [addr : Machine \cup {"nobody"}, paired : BOOLEAN, isSelf : BOOLEAN,
        alias : {None, "alias"}, synced : Nat \cup {None}, seen : Nat,
        online : BOOLEAN, uid : Machine \cup {None}, pairedAt : Nat,
        via : {None, "mdns", "udp"}, viaAt : Nat \cup {None},
        heir : AllIds \cup {None}]

Registry(r) ==
    /\ r = [rows |-> r.rows, secret |-> r.secret, heir |-> r.heir, codes |-> r.codes]
    /\ DOMAIN r.rows \subseteq AllIds
    /\ \A id \in DOMAIN r.rows : r.rows[id] \in Row
    /\ DOMAIN r.secret \subseteq AllIds

Saying == [mdnsAt : Nat \cup {None}, heardAt : Nat \cup {None}]
History == [Machine -> [AllIds -> Saying]]

Kind == {"request", "confirm", "join"}

\* The id has been given to an installation; it is that of the running one.
IssuedUpTo(inst, id) == \E i \in 1..inst[Owner(id)] : Ids[Owner(id)][i] = id
Issued(id) == IssuedUpTo(install, id)
Current(id) == id = Id(Owner(id))

\* A message that the machine m waits for, or the answer to it.
Outstanding(x, m) ==
    \/ x.type = "request" /\ x.from = m /\ x.wanted
    \/ x.type = "response" /\ x.to = m

TypesOK ==
    /\ clock \in 0..MaxClock
    /\ install \in [Machine -> Nat]
    /\ \A m \in Machine : install[m] \in 1..Len(Ids[m])
    /\ DOMAIN reg = Machine /\ DOMAIN inbound = Machine
    /\ \A m \in Machine : DOMAIN inbound[m] \subseteq AllIds
    /\ call \in [Machine -> {Idle} \cup [kind : Kind, peer : AllIds]]
    /\ spoken \in History

\* Messages carry the word of the installation that runs, and are to another.
MessagesOK ==
    \A q \in net :
        /\ q.type \in {"request", "response"}
        /\ q.type = "request" =>
              /\ q.wanted \in BOOLEAN
              /\ q = [type |-> q.type, kind |-> q.kind, from |-> q.from, id |-> q.id,
                      to |-> q.to, me |-> q.me, code |-> q.code, wanted |-> q.wanted,
                      n |-> q.n]
        /\ {q.from, q.to} \subseteq Machine /\ q.from # q.to
        /\ q.kind \in Kind
        /\ q.id = Id(q.from) /\ q.me \in Device /\ q.me.addr = q.from
        /\ q.me.seen <= clock

\* A machine that waits has called another one, by an id that was issued.
CallsOK ==
    \A m \in Machine : call[m] # Idle => Issued(call[m].peer) /\ Owner(call[m].peer) # m

\* It waits for one message at most, between the machine it called and itself.
AwaitedOK ==
    \A x \in net, m \in Machine : Outstanding(x, m) =>
        /\ call[m] # Idle
        /\ Owner(call[m].peer) = IF x.from = m THEN x.to ELSE x.from
        /\ \A y \in net : Outstanding(y, m) => x = y

\* No two machines are answering each other: who answers does not wait.
AnswersOK ==
    \A x, y \in net : ~(/\ x.type = "response" /\ y.type = "response"
                        /\ x.from = y.to /\ x.to = y.from)

WaitingOK == CallsOK /\ AwaitedOK /\ AnswersOK

\* What the history makes of a row.
Attested(row, said, now) ==
    /\ row.via # None => ~row.isSelf /\ row.viaAt \in Nat
    /\ said.mdnsAt = None => row.via # "mdns"
    /\ said.mdnsAt # None =>
          /\ said.mdnsAt <= now
          /\ IF row.via = "mdns" THEN row.viaAt = said.mdnsAt
                                 ELSE said.mdnsAt + MdnsFresh <= now
    /\ said.heardAt # None => said.heardAt <= row.seen /\ said.heardAt <= now

\* A row tells of another machine, under an id that was issued; a row that is
\* not there has no history.
RowGood(m, r, id, said, now) ==
    IF Known(r, id)
    THEN /\ Owner(id) # m /\ Issued(id)
         /\ r.rows[id].addr \in {Owner(id), "nobody"}
         /\ Current(id) /\ r.rows[id].paired => ~r.rows[id].isSelf
         /\ Attested(r.rows[id], said, now)
    ELSE said = [mdnsAt |-> None, heardAt |-> None]

RowsGood(m, r, sp, now) ==
    Registry(r) /\ \A id \in AllIds : RowGood(m, r, id, sp[id], now)

RowsOK == \A m \in Machine : RowsGood(m, reg[m], spoken[m], clock)

CodesOK ==
    /\ \A m, p \in Machine : m # p => DOMAIN reg[m].codes \cap DOMAIN reg[p].codes = {}
    /\ \A j \in joins, m \in Machine : j.code \notin DOMAIN reg[m].codes
    /\ \A j, k \in joins : j.code = k.code => j = k

Telling(m, p) == {a \in net : a.type = "response" /\ a.ok /\ a.from = p /\ a.to = m}

\* The secrets of two machines agree, or a message is on its way that will make
\* them.
Agreed(m, p) ==
    /\ \A a \in Telling(m, p) : Id(m) \in DOMAIN reg[p].secret =>
          reg[p].secret[Id(m)] = a.secret
    /\ (/\ Telling(m, p) = {} /\ Telling(p, m) = {}
        /\ Id(p) \in DOMAIN reg[m].secret /\ Id(m) \in DOMAIN reg[p].secret)
       => reg[m].secret[Id(p)] = reg[p].secret[Id(m)]

\* So it is between two machines that are not torn apart.
SecretsOK ==
    /\ \A m \in Machine : \A id \in DOMAIN reg[m].secret : Issued(id)
    /\ \A m, p \in Machine : m # p /\ {m, p} \notin torn => Agreed(m, p)

PairingInv ==
    TypesOK /\ MessagesOK /\ WaitingOK /\ RowsOK /\ CodesOK /\ SecretsOK

-----------------------------------------------------------------------------
(* Ids                                                                     *)

\* Every id is that of one installation of one machine.
LEMMA Owners ==
  /\ \A m \in Machine : \A i \in 1..Len(Ids[m]) : Ids[m][i] \in AllIds /\ Owner(Ids[m][i]) = m
  /\ \A id \in AllIds : Owner(id) \in Machine /\ id \in Range(Ids[Owner(id)])
  /\ \A m \in Machine : Len(Ids[m]) \in Nat /\ Len(Ids[m]) >= 1 /\ DOMAIN Ids[m] = 1..Len(Ids[m])
<1>1. \A m \in Machine : Len(Ids[m]) \in Nat /\ Len(Ids[m]) >= 1 /\ DOMAIN Ids[m] = 1..Len(Ids[m])
  <2> TAKE m \in Machine
  <2>1. Ids[m] \in Seq(AllIds) /\ Ids[m] # <<>>
    BY PairingAssumption
  <2> QED
    BY <2>1
<1>2. \A id \in AllIds : Owner(id) \in Machine /\ id \in Range(Ids[Owner(id)])
  <2> TAKE id \in AllIds
  <2>1. \E m \in Machine : id \in Range(Ids[m])
    BY DEF AllIds
  <2> QED
    BY <2>1 DEF Owner
<1>3. ASSUME NEW m \in Machine, NEW i \in 1..Len(Ids[m])
      PROVE  Ids[m][i] \in AllIds /\ Owner(Ids[m][i]) = m
  <2>1. Ids[m][i] \in Range(Ids[m])
    BY <1>1 DEF Range
  <2>2. Ids[m][i] \in AllIds
    BY <2>1 DEF AllIds
  <2>3. PICK p : p = Owner(Ids[m][i])
    OBVIOUS
  <2>4. p \in Machine /\ \E j \in DOMAIN Ids[p] : Ids[p][j] = Ids[m][i]
    BY <1>2, <2>2, <2>3 DEF Range
  <2> QED
    BY <1>1, <2>2, <2>3, <2>4, PairingAssumption
<1> QED
  BY <1>1, <1>2, <1>3

\* The id of the running installation is its own, and issued.
LEMMA RunningIds ==
  ASSUME TypesOK
  PROVE  \A m \in Machine : /\ Id(m) \in AllIds /\ Owner(Id(m)) = m
                           /\ Issued(Id(m)) /\ Current(Id(m))
<1> TAKE m \in Machine
<1>1. install[m] \in 1..Len(Ids[m]) /\ install[m] \in Nat /\ install[m] >= 1
  BY Owners DEF TypesOK
<1>2. Id(m) \in AllIds /\ Owner(Id(m)) = m
  BY <1>1, Owners DEF Id
<1> QED
  BY <1>1, <1>2 DEF Id, Issued, IssuedUpTo, Current

-----------------------------------------------------------------------------
(* Registries                                                              *)

\* Writing one table of a registry leaves the others.
LEMMA RegistryFields ==
  ASSUME NEW r, Registry(r), NEW x
  PROVE  /\ [r EXCEPT !.rows = x] = [rows |-> x, secret |-> r.secret, heir |-> r.heir, codes |-> r.codes]
         /\ [r EXCEPT !.secret = x] = [rows |-> r.rows, secret |-> x, heir |-> r.heir, codes |-> r.codes]
         /\ [r EXCEPT !.heir = x] = [rows |-> r.rows, secret |-> r.secret, heir |-> x, codes |-> r.codes]
         /\ [r EXCEPT !.codes = x] = [rows |-> r.rows, secret |-> r.secret, heir |-> r.heir, codes |-> x]
<1>1. PICK a, b, c, d : r = [rows |-> a, secret |-> b, heir |-> c, codes |-> d]
  BY DEF Registry
<1> QED
  BY <1>1

\* The fields of a row, and what a change of one of them leaves.
LEMMA RowFields ==
  ASSUME NEW row \in Row
  PROVE  /\ row.addr \in Machine \cup {"nobody"} /\ row.paired \in BOOLEAN
         /\ row.isSelf \in BOOLEAN /\ row.alias \in {None, "alias"}
         /\ row.synced \in Nat \cup {None} /\ row.seen \in Nat /\ row.online \in BOOLEAN
         /\ row.uid \in Machine \cup {None} /\ row.pairedAt \in Nat
         /\ row.via \in {None, "mdns", "udp"} /\ row.viaAt \in Nat \cup {None}
         /\ row.heir \in AllIds \cup {None}
  BY DEF Row

\* One row is set.
WithRow(r, id, row) == [r EXCEPT !.rows = Put(@, id, row)]

\* Setting a row leaves the other rows and tables.
LEMMA PutRow ==
  ASSUME NEW r, Registry(r), NEW id \in AllIds, NEW row \in Row, NEW u,
         u = WithRow(r, id, row)
  PROVE  /\ Registry(u) /\ u.secret = r.secret /\ u.codes = r.codes
         /\ DOMAIN u.rows = DOMAIN r.rows \cup {id} /\ u.rows[id] = row
         /\ \A x \in DOMAIN r.rows \ {id} : u.rows[x] = r.rows[x]
<1>1. u = [rows |-> Put(r.rows, id, row), secret |-> r.secret, heir |-> r.heir, codes |-> r.codes]
  BY RegistryFields DEF WithRow
<1> QED
  BY <1>1 DEF Registry, Put

\* The row of the device is as it says; the way it was discovered stays.
Upserts(r, id, w, u) ==
    /\ Registry(u) /\ u.secret = r.secret /\ u.codes = r.codes
    /\ DOMAIN u.rows = DOMAIN r.rows \cup {id}
    /\ \A x \in DOMAIN r.rows \ {id} : u.rows[x] = r.rows[x]
    /\ u.rows[id].addr = w.addr /\ u.rows[id].paired = w.paired
    /\ u.rows[id].isSelf = w.isSelf /\ u.rows[id].seen = w.seen
    /\ u.rows[id].online = TRUE
    /\ u.rows[id].via = IF Known(r, id) THEN r.rows[id].via ELSE None
    /\ Known(r, id) => u.rows[id].viaAt = r.rows[id].viaAt

\* What upsert_device makes of a row.
LEMMA UpsertEffect ==
  ASSUME NEW r, Registry(r), NEW id \in AllIds, NEW w \in Device,
         NEW u, u = UpsertDevice(r, id, w)
  PROVE  Upserts(r, id, w, u)
<1>1. /\ w.addr \in Machine /\ w.paired \in BOOLEAN /\ w.isSelf \in BOOLEAN
      /\ w.alias \in {None, "alias"} /\ w.synced \in Nat \cup {None} /\ w.seen \in Nat
      /\ w.online = TRUE /\ w.uid \in Machine \cup {None} /\ w.pairedAt \in Nat
  BY DEF Device
<1> DEFINE fresh == [addr |-> w.addr, paired |-> w.paired, isSelf |-> w.isSelf,
                     alias |-> w.alias, synced |-> w.synced, seen |-> w.seen,
                     online |-> w.online, uid |-> w.uid, pairedAt |-> w.pairedAt,
                     via |-> None, viaAt |-> None, heir |-> None]
           old == r.rows[id]
           updated == [fresh EXCEPT !.uid = Coalesce(fresh.uid, old.uid),
                                    !.pairedAt = old.pairedAt, !.via = old.via,
                                    !.viaAt = old.viaAt, !.heir = old.heir]
<1>2. fresh \in Row
  BY <1>1 DEF Row
<1>3. CASE ~Known(r, id)
  <2>1. PICK row : row = fresh
    OBVIOUS
  <2>2. u = WithRow(r, id, row)
    BY <1>3, <2>1 DEF UpsertDevice, WithRow
  <2>3. /\ row \in Row /\ row.addr = w.addr /\ row.paired = w.paired /\ row.isSelf = w.isSelf
        /\ row.seen = w.seen /\ row.online = TRUE /\ row.via = None
    BY <1>1, <1>2, <2>1
  <2>4. /\ Registry(u) /\ u.secret = r.secret /\ u.codes = r.codes
        /\ DOMAIN u.rows = DOMAIN r.rows \cup {id} /\ u.rows[id] = row
        /\ \A x \in DOMAIN r.rows \ {id} : u.rows[x] = r.rows[x]
    BY <2>2, <2>3, PutRow
  <2> QED
    BY <1>3, <2>3, <2>4 DEF Upserts
<1>4. CASE Known(r, id)
  <2>1. UpsertDevice(r, id, w) = [r EXCEPT !.rows = Put(r.rows, id, updated)]
    BY <1>4 DEF UpsertDevice
  <2>2. old \in Row
    BY <1>4 DEF Registry, Known
  <2>3. PICK f0, uid : f0 = fresh /\ uid = Coalesce(fresh.uid, old.uid)
    OBVIOUS
  <2>4. PICK f1 : f1 = [f0 EXCEPT !.uid = uid]
    OBVIOUS
  <2>5. PICK f2 : f2 = [f1 EXCEPT !.pairedAt = old.pairedAt]
    OBVIOUS
  <2>6. PICK f3 : f3 = [f2 EXCEPT !.via = old.via]
    OBVIOUS
  <2>7. PICK f4 : f4 = [f3 EXCEPT !.viaAt = old.viaAt]
    OBVIOUS
  <2>8. PICK f5 : f5 = [f4 EXCEPT !.heir = old.heir]
    OBVIOUS
  <2>9. updated = f5
    BY <2>3, <2>4, <2>5, <2>6, <2>7, <2>8
  <2>10. /\ f0 \in Row /\ uid \in Machine \cup {None}
         /\ f0.addr = w.addr /\ f0.paired = w.paired /\ f0.isSelf = w.isSelf
         /\ f0.seen = w.seen /\ f0.online = TRUE
    BY <1>1, <1>2, <2>2, <2>3, RowFields DEF Coalesce
  <2> HIDE DEF updated, fresh
  <2>11. /\ f1 \in Row /\ f1.addr = w.addr /\ f1.paired = w.paired /\ f1.isSelf = w.isSelf
         /\ f1.seen = w.seen /\ f1.online = TRUE
    BY <2>4, <2>10 DEF Row
  <2>12. /\ f2 \in Row /\ f2.addr = w.addr /\ f2.paired = w.paired /\ f2.isSelf = w.isSelf
         /\ f2.seen = w.seen /\ f2.online = TRUE
    BY <2>2, <2>5, <2>11 DEF Row
  <2>13. /\ f3 \in Row /\ f3.addr = w.addr /\ f3.paired = w.paired /\ f3.isSelf = w.isSelf
         /\ f3.seen = w.seen /\ f3.online = TRUE /\ f3.via = old.via
    BY <2>2, <2>6, <2>12 DEF Row
  <2>14. /\ f4 \in Row /\ f4.addr = w.addr /\ f4.paired = w.paired /\ f4.isSelf = w.isSelf
         /\ f4.seen = w.seen /\ f4.online = TRUE /\ f4.via = old.via /\ f4.viaAt = old.viaAt
    BY <2>2, <2>7, <2>13 DEF Row
  <2>15. /\ f5 \in Row /\ f5.addr = w.addr /\ f5.paired = w.paired /\ f5.isSelf = w.isSelf
         /\ f5.seen = w.seen /\ f5.online = TRUE /\ f5.via = old.via /\ f5.viaAt = old.viaAt
    BY <2>2, <2>8, <2>14 DEF Row
  <2>16. u = WithRow(r, id, f5)
    BY <2>1, <2>9 DEF WithRow
  <2>17. /\ Registry(u) /\ u.secret = r.secret /\ u.codes = r.codes
        /\ DOMAIN u.rows = DOMAIN r.rows \cup {id} /\ u.rows[id] = f5
        /\ \A x \in DOMAIN r.rows \ {id} : u.rows[x] = r.rows[x]
    BY <2>15, <2>16, PutRow
  <2> QED
    BY <1>4, <2>15, <2>17 DEF Upserts
<1> QED
  BY <1>3, <1>4

\* What an update leaves of a row: whose it is, and how it was discovered.
Alike(x, y) == /\ x.addr = y.addr /\ x.isSelf = y.isSelf
               /\ x.via = y.via /\ x.viaAt = y.viaAt

\* The same tables, but for fields of the rows.
Updates(r, u) ==
    /\ Registry(u) /\ u.secret = r.secret /\ u.codes = r.codes
    /\ DOMAIN u.rows = DOMAIN r.rows
    /\ \A x \in DOMAIN r.rows : Alike(u.rows[x], r.rows[x])

\* Writing one field of a row.
LEMMA RowWith ==
  ASSUME NEW row \in Row
  PROVE  /\ \A v : LET w == [row EXCEPT !.paired = v]
                   IN  v \in BOOLEAN => /\ w \in Row /\ Alike(w, row) /\ w.paired = v
                                        /\ w.seen = row.seen /\ w.online = row.online
         /\ \A v : LET w == [row EXCEPT !.alias = v]
                   IN  v \in {None, "alias"} => /\ w \in Row /\ Alike(w, row)
                                                /\ w.paired = row.paired
                                                /\ w.seen = row.seen /\ w.online = row.online
         /\ \A v : LET w == [row EXCEPT !.synced = v]
                   IN  v \in Nat \cup {None} => /\ w \in Row /\ Alike(w, row)
                                                /\ w.paired = row.paired
                                                /\ w.seen = row.seen /\ w.online = row.online
         /\ \A v : LET w == [row EXCEPT !.seen = v]
                   IN  v \in Nat => /\ w \in Row /\ Alike(w, row) /\ w.paired = row.paired
                                    /\ w.seen = v /\ w.online = row.online
         /\ \A v : LET w == [row EXCEPT !.online = v]
                   IN  v \in BOOLEAN => /\ w \in Row /\ Alike(w, row) /\ w.paired = row.paired
                                        /\ w.seen = row.seen /\ w.online = v
  BY DEF Row, Alike

\* A row that is there is set in its place.
LEMMA InPlace ==
  ASSUME NEW r, Registry(r), NEW id \in DOMAIN r.rows, NEW row
  PROVE  [r EXCEPT !.rows[id] = row] = WithRow(r, id, row)
<1>1. [r.rows EXCEPT ![id] = row] = Put(r.rows, id, row)
  BY DEF Put
<1>2. [r EXCEPT !.rows = Put(r.rows, id, row)] = WithRow(r, id, row)
  BY DEF WithRow
<1>3. [r EXCEPT !.rows[id] = row] = [r EXCEPT !.rows = [r.rows EXCEPT ![id] = row]]
  OBVIOUS
<1> QED
  BY <1>1, <1>2, <1>3

\* Setting a row that keeps the row's identity is an update.
LEMMA UpdateRow ==
  ASSUME NEW r, Registry(r), NEW id \in DOMAIN r.rows, NEW row \in Row,
         Alike(row, r.rows[id]), NEW u, u = WithRow(r, id, row)
  PROVE  /\ Updates(r, u) /\ u.rows[id] = row
         /\ \A x \in DOMAIN r.rows \ {id} : u.rows[x] = r.rows[x]
<1>1. id \in AllIds
  BY DEF Registry
<1>2. /\ Registry(u) /\ u.secret = r.secret /\ u.codes = r.codes
      /\ DOMAIN u.rows = DOMAIN r.rows \cup {id} /\ u.rows[id] = row
      /\ \A x \in DOMAIN r.rows \ {id} : u.rows[x] = r.rows[x]
  BY <1>1, PutRow
<1>3. DOMAIN u.rows = DOMAIN r.rows
  BY <1>2
<1>4. \A x \in DOMAIN r.rows : Alike(u.rows[x], r.rows[x])
  BY <1>2 DEF Alike
<1> QED
  BY <1>2, <1>3, <1>4 DEF Updates

\* A registry that stays is an update of itself.
LEMMA SameUpdates ==
  ASSUME NEW r, Registry(r)
  PROVE  Updates(r, r)
  BY DEF Updates, Alike

\* The device is paired, and nothing else.
PairsWith(r, id, u) ==
    /\ Updates(r, u)
    /\ \A x \in DOMAIN r.rows :
          /\ u.rows[x].seen = r.rows[x].seen /\ u.rows[x].online = r.rows[x].online
          /\ u.rows[x].paired <=> r.rows[x].paired \/ x = id

\* set_paired.
LEMMA SetPairedEffect ==
  ASSUME NEW r, Registry(r), NEW id, NEW u, u = SetPaired(r, id)
  PROVE  PairsWith(r, id, u)
<1>1. \A x \in DOMAIN r.rows : r.rows[x].paired \in BOOLEAN
  BY RowFields DEF Registry
<1>2. CASE ~Known(r, id)
  BY <1>1, <1>2, SameUpdates DEF SetPaired, Known, PairsWith
<1>3. CASE Known(r, id)
  <2>1. id \in DOMAIN r.rows /\ r.rows[id] \in Row
    BY <1>3 DEF Known, Registry
  <2>2. PICK row : row = [r.rows[id] EXCEPT !.paired = TRUE]
    OBVIOUS
  <2>3. /\ row \in Row /\ Alike(row, r.rows[id]) /\ row.paired = TRUE
        /\ row.seen = r.rows[id].seen /\ row.online = r.rows[id].online
    BY <2>1, <2>2, RowWith
  <2>4. u = [r EXCEPT !.rows[id] = row]
    BY <1>3, <2>2 DEF SetPaired
  <2>5. u = WithRow(r, id, row)
    BY <2>1, <2>4, InPlace
  <2>6. /\ Updates(r, u) /\ u.rows[id] = row
        /\ \A x \in DOMAIN r.rows \ {id} : u.rows[x] = r.rows[x]
    BY <2>1, <2>3, <2>5, UpdateRow
  <2> QED
    BY <2>3, <2>6 DEF PairsWith
<1> QED
  BY <1>2, <1>3

\* update_alias.
LEMMA UpdateAliasEffect ==
  ASSUME NEW r, Registry(r), NEW id \in DOMAIN r.rows, NEW u, u = UpdateAlias(r, id, "alias")
  PROVE  /\ Updates(r, u)
         /\ \A x \in DOMAIN r.rows :
               /\ u.rows[x].seen = r.rows[x].seen /\ u.rows[x].online = r.rows[x].online
               /\ u.rows[x].paired = r.rows[x].paired
<1>1. r.rows[id] \in Row
  BY DEF Registry
<1>2. PICK row : row = [r.rows[id] EXCEPT !.alias = "alias"]
  OBVIOUS
<1>3. /\ row \in Row /\ Alike(row, r.rows[id]) /\ row.paired = r.rows[id].paired
      /\ row.seen = r.rows[id].seen /\ row.online = r.rows[id].online
  BY <1>1, <1>2, RowWith
<1>4. u = [r EXCEPT !.rows[id] = row]
  BY <1>2 DEF UpdateAlias
<1>5. u = WithRow(r, id, row)
  BY <1>4, InPlace
<1>6. /\ Updates(r, u) /\ u.rows[id] = row
      /\ \A x \in DOMAIN r.rows \ {id} : u.rows[x] = r.rows[x]
  BY <1>3, <1>5, UpdateRow
<1> QED
  BY <1>3, <1>6

\* At most the mark is set that a device is online, and the time of a
\* synchronisation.
Marks(r, u) ==
    /\ Updates(r, u)
    /\ \A x \in DOMAIN r.rows :
          /\ u.rows[x].seen = r.rows[x].seen /\ u.rows[x].paired = r.rows[x].paired
          /\ u.rows[x].online = r.rows[x].online \/ u.rows[x].online = TRUE

\* mark_synced: a device that has answered is online.
LEMMA MarkSyncedEffect ==
  ASSUME NEW r, Registry(r), NEW id, NEW now \in Nat, NEW u, u = MarkSynced(r, id, now)
  PROVE  Marks(r, u)
<1>1. CASE ~Known(r, id)
  BY <1>1, SameUpdates DEF MarkSynced, Known, Marks
<1>2. CASE Known(r, id)
  <2>1. id \in DOMAIN r.rows /\ r.rows[id] \in Row
    BY <1>2 DEF Known, Registry
  <2>2. PICK dated : dated = [r.rows[id] EXCEPT !.synced = now]
    OBVIOUS
  <2>3. PICK row : row = [dated EXCEPT !.online = TRUE]
    OBVIOUS
  <2>4. /\ dated \in Row /\ Alike(dated, r.rows[id]) /\ dated.paired = r.rows[id].paired
        /\ dated.seen = r.rows[id].seen
    BY <2>1, <2>2, RowWith
  <2>5. /\ row \in Row /\ Alike(row, dated) /\ row.paired = dated.paired
        /\ row.seen = dated.seen /\ row.online = TRUE
    BY <2>3, <2>4, RowWith
  <2>6. PICK mid : mid = [r EXCEPT !.rows[id] = dated]
    OBVIOUS
  <2>7. u = [mid EXCEPT !.rows[id].online = TRUE]
    BY <1>2, <2>2, <2>6 DEF MarkSynced
  <2>8. mid = WithRow(r, id, dated)
    BY <2>1, <2>6, InPlace
  <2>9. /\ Updates(r, mid) /\ mid.rows[id] = dated
        /\ \A x \in DOMAIN r.rows \ {id} : mid.rows[x] = r.rows[x]
    BY <2>1, <2>4, <2>8, UpdateRow
  <2>10. Registry(mid) /\ id \in DOMAIN mid.rows /\ DOMAIN mid.rows = DOMAIN r.rows
         /\ mid.secret = r.secret /\ mid.codes = r.codes
    BY <2>1, <2>9 DEF Updates
  <2>11. u = [mid EXCEPT !.rows[id] = row]
    BY <2>3, <2>7, <2>9
  <2>12. u = WithRow(mid, id, row)
    BY <2>10, <2>11, InPlace
  <2>13. /\ Updates(mid, u) /\ u.rows[id] = row
         /\ \A x \in DOMAIN mid.rows \ {id} : u.rows[x] = mid.rows[x]
    BY <2>5, <2>9, <2>10, <2>12, UpdateRow
  <2>14. Updates(r, u)
    BY <2>9, <2>10, <2>13 DEF Updates, Alike
  <2> QED
    BY <2>4, <2>5, <2>9, <2>10, <2>13, <2>14 DEF Marks
<1> QED
  BY <1>1, <1>2

\* What an answer to a probe changes.
Probed(r, u, now) ==
    /\ Updates(r, u)
    /\ \A x \in DOMAIN r.rows :
          /\ u.rows[x].seen = r.rows[x].seen /\ u.rows[x].paired = r.rows[x].paired
          /\ \/ u.rows[x].online = r.rows[x].online
             \/ u.rows[x].online = TRUE
             \/ r.rows[x].seen + OnlineGrace <= now

\* touch_online: only a device that was not heard lately is marked offline.
LEMMA TouchOnlineEffect ==
  ASSUME NEW r, Registry(r), NEW id, NEW online \in BOOLEAN, NEW now \in Nat,
         NEW u, u = TouchOnline(r, id, online, now)
  PROVE  Probed(r, u, now)
<1>1. CASE u = r
  BY <1>1, SameUpdates DEF Probed
<1>2. CASE u # r
  <2>1. id \in DOMAIN r.rows /\ r.rows[id] \in Row
    BY <1>2 DEF TouchOnline, Known, Registry
  <2>2. r.rows[id].seen # None /\ r.rows[id].seen \in Nat
    BY <2>1, RowFields, NullAssumption
  <2>3. ~(~online /\ r.rows[id].seen + OnlineGrace > now)
    BY <1>2, <2>2 DEF TouchOnline
  <2>4. PICK row : row = [r.rows[id] EXCEPT !.online = online]
    OBVIOUS
  <2>5. /\ row \in Row /\ Alike(row, r.rows[id]) /\ row.paired = r.rows[id].paired
        /\ row.seen = r.rows[id].seen /\ row.online = online
    BY <2>1, <2>4, RowWith
  <2>6. u = [r EXCEPT !.rows[id] = row]
    BY <1>2, <2>4 DEF TouchOnline
  <2>7. u = WithRow(r, id, row)
    BY <2>1, <2>6, InPlace
  <2>8. /\ Updates(r, u) /\ u.rows[id] = row
        /\ \A x \in DOMAIN r.rows \ {id} : u.rows[x] = r.rows[x]
    BY <2>1, <2>5, <2>7, UpdateRow
  <2>9. row.online = TRUE \/ r.rows[id].seen + OnlineGrace <= now
    BY <2>2, <2>3, <2>5, DeviceTableAssumption
  <2> QED
    BY <2>5, <2>8, <2>9 DEF Probed
<1> QED
  BY <1>1, <1>2

\* What a sign of life changes.
Touches(r, id, now, u) ==
    /\ Updates(r, u)
    /\ \A x \in DOMAIN r.rows :
          /\ u.rows[x].paired = r.rows[x].paired
          /\ u.rows[x].online = r.rows[x].online \/ u.rows[x].online = TRUE
          /\ u.rows[x].seen = IF x = id /\ ~r.rows[id].isSelf THEN now ELSE r.rows[x].seen

\* touch_last_seen_and_online.
LEMMA TouchSeenEffect ==
  ASSUME NEW r, Registry(r), NEW id \in DOMAIN r.rows, NEW now \in Nat,
         NEW u, u = TouchSeen(r, id, now)
  PROVE  Touches(r, id, now, u)
<1>1. CASE r.rows[id].isSelf
  BY <1>1, SameUpdates DEF TouchSeen, Touches
<1>2. CASE ~r.rows[id].isSelf
  <2>1. id \in DOMAIN r.rows /\ r.rows[id] \in Row
    BY <1>2 DEF Registry
  <2>2. PICK dated : dated = [r.rows[id] EXCEPT !.seen = now]
    OBVIOUS
  <2>3. PICK row : row = [dated EXCEPT !.online = TRUE]
    OBVIOUS
  <2>4. /\ dated \in Row /\ Alike(dated, r.rows[id]) /\ dated.paired = r.rows[id].paired
        /\ dated.seen = now
    BY <2>1, <2>2, RowWith
  <2>5. /\ row \in Row /\ Alike(row, dated) /\ row.paired = dated.paired
        /\ row.seen = dated.seen /\ row.online = TRUE
    BY <2>3, <2>4, RowWith
  <2>6. PICK mid : mid = [r EXCEPT !.rows[id] = dated]
    OBVIOUS
  <2>7. u = [mid EXCEPT !.rows[id].online = TRUE]
    BY <1>2, <2>2, <2>6 DEF TouchSeen
  <2>8. mid = WithRow(r, id, dated)
    BY <2>1, <2>6, InPlace
  <2>9. /\ Updates(r, mid) /\ mid.rows[id] = dated
        /\ \A x \in DOMAIN r.rows \ {id} : mid.rows[x] = r.rows[x]
    BY <2>1, <2>4, <2>8, UpdateRow
  <2>10. Registry(mid) /\ id \in DOMAIN mid.rows /\ DOMAIN mid.rows = DOMAIN r.rows
         /\ mid.secret = r.secret /\ mid.codes = r.codes
    BY <2>1, <2>9 DEF Updates
  <2>11. u = [mid EXCEPT !.rows[id] = row]
    BY <2>3, <2>7, <2>9
  <2>12. u = WithRow(mid, id, row)
    BY <2>10, <2>11, InPlace
  <2>13. /\ Updates(mid, u) /\ u.rows[id] = row
         /\ \A x \in DOMAIN mid.rows \ {id} : u.rows[x] = mid.rows[x]
    BY <2>5, <2>9, <2>10, <2>12, UpdateRow
  <2>14. Updates(r, u)
    BY <2>9, <2>10, <2>13 DEF Updates, Alike
  <2> QED
    BY <1>2, <2>4, <2>5, <2>9, <2>10, <2>13, <2>14 DEF Touches
<1> QED
  BY <1>1, <1>2

\* What a discovery makes of a registry.
Discovers(r, id, addr, via, now, u) ==
    /\ Registry(u) /\ u.secret = r.secret /\ u.codes = r.codes
    /\ DOMAIN u.rows = DOMAIN r.rows \cup {id}
    /\ \A x \in DOMAIN r.rows \ {id} : u.rows[x] = r.rows[x]
    /\ u.rows[id].addr = addr /\ u.rows[id].isSelf = FALSE /\ u.rows[id].seen = now
    /\ u.rows[id].via = via /\ u.rows[id].viaAt = now
    /\ IF Known(r, id) THEN u.rows[id].paired = r.rows[id].paired /\ u.rows[id].online = TRUE
                            ELSE u.rows[id].paired = FALSE

\* What upsert_discovered makes of a row: it is another machine's, there and now.
LEMMA UpsertDiscoveredEffect ==
  ASSUME NEW r, Registry(r), NEW id \in AllIds, NEW addr \in Machine \cup {"nobody"},
         NEW via \in {"mdns", "udp"}, NEW now \in Nat,
         NEW u, u = UpsertDiscovered(r, id, addr, via, now)
  PROVE  Discovers(r, id, addr, via, now, u)
<1>1. CASE ~Known(r, id)
  <2>1. PICK row : row = [addr |-> addr, paired |-> FALSE, isSelf |-> FALSE, alias |-> None,
                          synced |-> None, seen |-> now, online |-> FALSE, uid |-> None,
                          pairedAt |-> now, via |-> via, viaAt |-> now, heir |-> None]
    OBVIOUS
  <2>2. /\ row \in Row /\ row.addr = addr /\ row.isSelf = FALSE /\ row.seen = now
        /\ row.via = via /\ row.viaAt = now /\ row.paired = FALSE
    BY <2>1 DEF Row
  <2>3. u = WithRow(r, id, row)
    BY <1>1, <2>1 DEF UpsertDiscovered, WithRow
  <2>4. /\ Registry(u) /\ u.secret = r.secret /\ u.codes = r.codes
        /\ DOMAIN u.rows = DOMAIN r.rows \cup {id} /\ u.rows[id] = row
        /\ \A x \in DOMAIN r.rows \ {id} : u.rows[x] = r.rows[x]
    BY <2>2, <2>3, PutRow
  <2> QED
    BY <1>1, <2>2, <2>4 DEF Discovers
<1>2. CASE Known(r, id)
  <2>1. PICK old : old = r.rows[id]
    OBVIOUS
  <2>2. old \in Row /\ id \in DOMAIN r.rows
    BY <1>2, <2>1 DEF Registry, Known
  <2>3. PICK f1 : f1 = [old EXCEPT !.addr = addr]
    OBVIOUS
  <2>4. PICK f2 : f2 = [f1 EXCEPT !.seen = now]
    OBVIOUS
  <2>5. PICK f3 : f3 = [f2 EXCEPT !.online = TRUE]
    OBVIOUS
  <2>6. PICK f4 : f4 = [f3 EXCEPT !.isSelf = FALSE]
    OBVIOUS
  <2>7. PICK f5 : f5 = [f4 EXCEPT !.via = via]
    OBVIOUS
  <2>8. PICK f6 : f6 = [f5 EXCEPT !.viaAt = now]
    OBVIOUS
  <2>9. f1 \in Row /\ f1.addr = addr /\ f1.paired = old.paired
    BY <2>2, <2>3 DEF Row
  <2>10. f2 \in Row /\ f2.addr = addr /\ f2.paired = old.paired /\ f2.seen = now
    BY <2>4, <2>9 DEF Row
  <2>11. /\ f3 \in Row /\ f3.addr = addr /\ f3.paired = old.paired /\ f3.seen = now
         /\ f3.online = TRUE
    BY <2>5, <2>10 DEF Row
  <2>12. /\ f4 \in Row /\ f4.addr = addr /\ f4.paired = old.paired /\ f4.seen = now
         /\ f4.online = TRUE /\ f4.isSelf = FALSE
    BY <2>6, <2>11 DEF Row
  <2>13. /\ f5 \in Row /\ f5.addr = addr /\ f5.paired = old.paired /\ f5.seen = now
         /\ f5.online = TRUE /\ f5.isSelf = FALSE /\ f5.via = via
    BY <2>7, <2>12 DEF Row
  <2>14. /\ f6 \in Row /\ f6.addr = addr /\ f6.paired = old.paired /\ f6.seen = now
         /\ f6.online = TRUE /\ f6.isSelf = FALSE /\ f6.via = via /\ f6.viaAt = now
    BY <2>8, <2>13 DEF Row
  <2>15. f6 = [old EXCEPT !.addr = addr, !.seen = now, !.online = TRUE,
                          !.isSelf = FALSE, !.via = via, !.viaAt = now]
    BY <2>3, <2>4, <2>5, <2>6, <2>7, <2>8
  <2>16. u = WithRow(r, id, f6)
    BY <1>2, <2>1, <2>15 DEF UpsertDiscovered, WithRow
  <2>17. /\ Registry(u) /\ u.secret = r.secret /\ u.codes = r.codes
         /\ DOMAIN u.rows = DOMAIN r.rows \cup {id} /\ u.rows[id] = f6
         /\ \A x \in DOMAIN r.rows \ {id} : u.rows[x] = r.rows[x]
    BY <2>14, <2>16, PutRow
  <2> QED
    BY <1>2, <2>1, <2>14, <2>17 DEF Discovers
<1> QED
  BY <1>1, <1>2

\* One row removed, or several, and nothing else of the rows that stay.
Removes(r, u) ==
    /\ Registry(u) /\ u.codes = r.codes
    /\ DOMAIN u.rows \subseteq DOMAIN r.rows
    /\ \A x \in DOMAIN u.rows : u.rows[x] = r.rows[x]
    /\ DOMAIN u.secret \subseteq DOMAIN r.secret
    /\ \A x \in DOMAIN u.secret : u.secret[x] = r.secret[x]

\* What a removal leaves, part by part.
LEMMA RemovesParts ==
  ASSUME NEW r, Registry(r), NEW u, u.codes = r.codes,
         u = [rows |-> u.rows, secret |-> u.secret, heir |-> u.heir, codes |-> u.codes],
         DOMAIN u.rows \subseteq DOMAIN r.rows, \A x \in DOMAIN u.rows : u.rows[x] = r.rows[x],
         DOMAIN u.secret \subseteq DOMAIN r.secret,
         \A x \in DOMAIN u.secret : u.secret[x] = r.secret[x]
  PROVE  Removes(r, u)
  BY DEF Removes, Registry

\* delete_device, delete_all_devices, the purge of paired devices and that of
\* discovered ones only remove.
LEMMA RemovalsRemove ==
  ASSUME NEW r, Registry(r), NEW u, NEW id, NEW now,
         \/ u = DeleteDevice(r, id) \/ u = DeleteAllDevices(r)
         \/ u = PurgeStalePaired(r, now) \/ u \in Purgings(r, now)
  PROVE  Removes(r, u)
<1>1. CASE u = DeleteDevice(r, id)
  <2>1. PICK rows, secret : rows = Drop(r.rows, {id}) /\ secret = Drop(r.secret, {id})
    OBVIOUS
  <2>2. PICK mid : mid = [r EXCEPT !.rows = rows]
    OBVIOUS
  <2>3. mid = [rows |-> rows, secret |-> r.secret, heir |-> r.heir, codes |-> r.codes]
    BY <2>2, RegistryFields
  <2>4. u = [mid EXCEPT !.secret = secret]
    <3>1. u = [[r EXCEPT !.rows = rows] EXCEPT !.secret = Drop(@, {id})]
      BY <1>1, <2>1 DEF DeleteDevice
    <3>2. mid.secret = r.secret
      BY <2>3
    <3> QED
      BY <2>1, <2>2, <3>1, <3>2
  <2>5. u = [rows |-> rows, secret |-> secret, heir |-> r.heir, codes |-> r.codes]
    BY <2>3, <2>4
  <2>6. /\ DOMAIN rows \subseteq DOMAIN r.rows /\ \A x \in DOMAIN rows : rows[x] = r.rows[x]
        /\ DOMAIN secret \subseteq DOMAIN r.secret
        /\ \A x \in DOMAIN secret : secret[x] = r.secret[x]
    BY <2>1 DEF Drop, Restrict
  <2>7. /\ u.rows = rows /\ u.secret = secret /\ u.codes = r.codes
        /\ u = [rows |-> u.rows, secret |-> u.secret, heir |-> u.heir, codes |-> u.codes]
    BY <2>5
  <2> QED
    BY <2>6, <2>7, RemovesParts
<1>2. CASE u = DeleteAllDevices(r)
  <2>1. PICK rows, none : /\ rows = [x \in {i \in DOMAIN r.rows : r.rows[i].isSelf} |-> r.rows[x]]
                          /\ none = <<>>
    OBVIOUS
  <2>2. DOMAIN none = {}
    BY <2>1
  <2>3. PICK mid : mid = [r EXCEPT !.rows = rows]
    OBVIOUS
  <2>4. mid = [rows |-> rows, secret |-> r.secret, heir |-> r.heir, codes |-> r.codes]
    BY <2>3, RegistryFields
  <2>5. u = [[mid EXCEPT !.secret = none] EXCEPT !.heir = none]
    BY <1>2, <2>1, <2>3 DEF DeleteAllDevices
  <2>6. u = [rows |-> rows, secret |-> none, heir |-> none, codes |-> r.codes]
    BY <2>4, <2>5
  <2>7. DOMAIN rows \subseteq DOMAIN r.rows /\ \A x \in DOMAIN rows : rows[x] = r.rows[x]
    BY <2>1
  <2>8. /\ u.rows = rows /\ u.secret = none /\ u.codes = r.codes
        /\ u = [rows |-> u.rows, secret |-> u.secret, heir |-> u.heir, codes |-> u.codes]
    BY <2>6
  <2> QED
    BY <2>2, <2>7, <2>8, RemovesParts
<1>3. CASE u = PurgeStalePaired(r, now)
  <2>1. PICK gone : gone = StalePaired(r, now)
    OBVIOUS
  <2>2. PICK rows, secret, heir :
            /\ rows = Drop(r.rows, gone) /\ secret = Drop(r.secret, gone)
            /\ heir = [x \in {i \in DOMAIN r.heir : {i, r.heir[i]} \cap gone = {}} |-> r.heir[x]]
    OBVIOUS
  <2>3. PICK mid : mid = [r EXCEPT !.rows = rows]
    OBVIOUS
  <2>4. mid = [rows |-> rows, secret |-> r.secret, heir |-> r.heir, codes |-> r.codes]
    BY <2>3, RegistryFields
  <2>5. PICK mid2 : mid2 = [mid EXCEPT !.secret = secret]
    OBVIOUS
  <2>6. mid2 = [rows |-> rows, secret |-> secret, heir |-> r.heir, codes |-> r.codes]
    BY <2>4, <2>5
  <2>7. u = [mid2 EXCEPT !.heir = heir]
    <3>1. u = [[[r EXCEPT !.rows = rows] EXCEPT !.secret = Drop(@, gone)] EXCEPT
                  !.heir = [x \in {i \in DOMAIN @ : {i, @[i]} \cap gone = {}} |-> @[x]]]
      BY <1>3, <2>1, <2>2 DEF PurgeStalePaired
    <3>2. mid.secret = r.secret /\ mid2.heir = r.heir
      BY <2>4, <2>6
    <3> QED
      BY <2>2, <2>3, <2>5, <3>1, <3>2
  <2>8. u = [rows |-> rows, secret |-> secret, heir |-> heir, codes |-> r.codes]
    BY <2>6, <2>7
  <2>9. /\ DOMAIN rows \subseteq DOMAIN r.rows /\ \A x \in DOMAIN rows : rows[x] = r.rows[x]
        /\ DOMAIN secret \subseteq DOMAIN r.secret
        /\ \A x \in DOMAIN secret : secret[x] = r.secret[x]
    BY <2>2 DEF Drop, Restrict
  <2>10. /\ u.rows = rows /\ u.secret = secret /\ u.codes = r.codes
        /\ u = [rows |-> u.rows, secret |-> u.secret, heir |-> u.heir, codes |-> u.codes]
    BY <2>8
  <2> QED
    BY <2>9, <2>10, RemovesParts
<1>4. CASE u \in Purgings(r, now)
  <2>1. PICK xs : u = [r EXCEPT !.rows = Drop(@, xs)]
    BY <1>4 DEF Purgings
  <2>2. PICK rows : rows = Drop(r.rows, xs)
    OBVIOUS
  <2>3. u = [rows |-> rows, secret |-> r.secret, heir |-> r.heir, codes |-> r.codes]
    BY <2>1, <2>2, RegistryFields
  <2>4. DOMAIN rows \subseteq DOMAIN r.rows /\ \A x \in DOMAIN rows : rows[x] = r.rows[x]
    BY <2>2 DEF Drop, Restrict
  <2>5. /\ u.rows = rows /\ u.secret = r.secret /\ u.codes = r.codes
        /\ u = [rows |-> u.rows, secret |-> u.secret, heir |-> u.heir, codes |-> u.codes]
    BY <2>3
  <2> QED
    BY <2>4, <2>5, RemovesParts
<1> QED
  BY <1>1, <1>2, <1>3, <1>4

\* The purge of discovered devices keeps the paired ones, and all secrets.
LEMMA PurgingsKeep ==
  ASSUME NEW r, Registry(r), NEW now, NEW u \in Purgings(r, now)
  PROVE  /\ u.secret = r.secret
         /\ \A x \in DOMAIN r.rows : r.rows[x].paired => x \in DOMAIN u.rows
<1> DEFINE silent == {x \in Discovered(r) : SeenAt(r, x) + DiscoveredAge < now}
           rest == Discovered(r) \ silent
<1>1. PICK k \in SUBSET rest : u = [r EXCEPT !.rows = Drop(@, silent \cup (rest \ k))]
  BY DEF Purgings
<1>2. PICK xs, rows : xs = silent \cup (rest \ k) /\ rows = Drop(r.rows, xs)
  OBVIOUS
<1>3. u = [rows |-> rows, secret |-> r.secret, heir |-> r.heir, codes |-> r.codes]
  BY <1>1, <1>2, RegistryFields
<1>4. u.rows = rows /\ u.secret = r.secret
  BY <1>3
<1>5. \A x \in xs : ~r.rows[x].paired
  BY <1>2 DEF Discovered
<1>6. DOMAIN rows = DOMAIN r.rows \ xs
  BY <1>2 DEF Drop, Restrict
<1> QED
  BY <1>4, <1>5, <1>6

\* The secret of one device is set.
Shares(r, id, s, u) ==
    /\ DOMAIN u.secret = DOMAIN r.secret \cup {id} /\ u.secret[id] = s
    /\ \A x \in DOMAIN r.secret \ {id} : u.secret[x] = r.secret[x]

\* store_secret.
LEMMA SetSecretEffect ==
  ASSUME NEW r, Registry(r), NEW id \in AllIds, NEW s, NEW u, u = SetSecret(r, id, s)
  PROVE  Registry(u) /\ u.rows = r.rows /\ u.codes = r.codes /\ Shares(r, id, s, u)
<1>1. PICK secret : secret = Put(r.secret, id, s)
  OBVIOUS
<1>2. u = [rows |-> r.rows, secret |-> secret, heir |-> r.heir, codes |-> r.codes]
  BY <1>1, RegistryFields DEF SetSecret
<1>3. /\ DOMAIN secret = DOMAIN r.secret \cup {id} /\ secret[id] = s
      /\ \A x \in DOMAIN r.secret \ {id} : secret[x] = r.secret[x]
  BY <1>1 DEF Put
<1>4. /\ u.rows = r.rows /\ u.secret = secret /\ u.codes = r.codes
      /\ u = [rows |-> u.rows, secret |-> u.secret, heir |-> u.heir, codes |-> u.codes]
  BY <1>2
<1> QED
  BY <1>3, <1>4 DEF Registry, Shares

\* A change of the codes alone.
WithCodes(r, codes) == [r EXCEPT !.codes = codes]

\* It leaves the rows and the secrets.
LEMMA PutCodes ==
  ASSUME NEW r, Registry(r), NEW codes, NEW u, u = WithCodes(r, codes)
  PROVE  Registry(u) /\ u.rows = r.rows /\ u.secret = r.secret /\ u.codes = codes
<1>1. u = [rows |-> r.rows, secret |-> r.secret, heir |-> r.heir, codes |-> codes]
  BY RegistryFields DEF WithCodes
<1>2. /\ u.rows = r.rows /\ u.secret = r.secret /\ u.codes = codes
      /\ u = [rows |-> u.rows, secret |-> u.secret, heir |-> u.heir, codes |-> u.codes]
  BY <1>1
<1> QED
  BY <1>2 DEF Registry

\* store_pairing_code adds at most the code.
LEMMA StoreCodeEffect ==
  ASSUME NEW r, Registry(r), NEW c, NEW now, NEW u, u = StoreCode(r, c, now, Validity)
  PROVE  /\ Registry(u) /\ u.rows = r.rows /\ u.secret = r.secret
         /\ DOMAIN u.codes \subseteq DOMAIN r.codes \cup {c}
<1>1. PICK codes : codes = Put(Restrict(r.codes, {x \in DOMAIN r.codes : r.codes[x] > now}),
                               c, now + Validity)
  OBVIOUS
<1>2. u = WithCodes(r, codes)
  BY <1>1 DEF StoreCode, WithCodes
<1>3. DOMAIN codes \subseteq DOMAIN r.codes \cup {c}
  BY <1>1 DEF Put, Restrict
<1>4. Registry(u) /\ u.rows = r.rows /\ u.secret = r.secret /\ u.codes = codes
  BY <1>2, PutCodes
<1> QED
  BY <1>3, <1>4

\* The device was announced; what is written of it depends on who announced it.
Records(r, id, addr, via, now, u) ==
    /\ Registry(u) /\ u.secret = r.secret /\ u.codes = r.codes
    /\ DOMAIN u.rows = DOMAIN r.rows \cup {id}
    /\ \A x \in DOMAIN r.rows \ {id} :
          /\ Alike(u.rows[x], r.rows[x]) /\ u.rows[x].seen = r.rows[x].seen
          /\ u.rows[x].paired = r.rows[x].paired
          /\ u.rows[x].online = r.rows[x].online \/ u.rows[x].online = TRUE
    /\ Known(r, id) => /\ u.rows[id].paired = r.rows[id].paired
                       /\ u.rows[id].online = r.rows[id].online \/ u.rows[id].online = TRUE
    /\ ~Known(r, id) => u.rows[id].paired = FALSE
    /\ IF SourceWins(r, id, via, now)
       THEN /\ u.rows[id].addr = addr /\ u.rows[id].isSelf = FALSE
            /\ u.rows[id].seen = now /\ u.rows[id].via = via /\ u.rows[id].viaAt = now
       ELSE /\ Known(r, id) /\ Alike(u.rows[id], r.rows[id])
            /\ u.rows[id].seen = IF r.rows[id].isSelf THEN r.rows[id].seen ELSE now

\* record_peer: the row is written, or the device is only marked as seen.
LEMMA RecordPeerEffect ==
  ASSUME NEW r, Registry(r), NEW id \in AllIds, NEW addr \in Machine \cup {"nobody"},
         NEW via \in {"mdns", "udp"}, NEW now \in Nat,
         NEW u, u = RecordPeer(r, id, addr, via, now)
  PROVE  Records(r, id, addr, via, now, u)
<1>1. CASE SourceWins(r, id, via, now)
  <2>1. u = UpsertDiscovered(r, id, addr, via, now)
    BY <1>1 DEF RecordPeer
  <2>2. /\ Registry(u) /\ u.secret = r.secret /\ u.codes = r.codes
        /\ DOMAIN u.rows = DOMAIN r.rows \cup {id}
        /\ \A x \in DOMAIN r.rows \ {id} : u.rows[x] = r.rows[x]
        /\ u.rows[id].addr = addr /\ u.rows[id].isSelf = FALSE /\ u.rows[id].seen = now
        /\ u.rows[id].via = via /\ u.rows[id].viaAt = now
        /\ IF Known(r, id) THEN u.rows[id].paired = r.rows[id].paired /\ u.rows[id].online = TRUE
                           ELSE u.rows[id].paired = FALSE
    <3>1. Discovers(r, id, addr, via, now, u)
      BY <2>1, UpsertDiscoveredEffect
    <3> QED
      BY <3>1 DEF Discovers
  <2>3. \A x \in DOMAIN r.rows \ {id} : Alike(u.rows[x], r.rows[x])
    BY <2>2 DEF Alike
  <2> QED
    BY <1>1, <2>2, <2>3 DEF Records
<1>2. CASE ~SourceWins(r, id, via, now)
  <2>1. id \in DOMAIN r.rows /\ Known(r, id) /\ u = TouchSeen(r, id, now)
    BY <1>2 DEF RecordPeer, SourceWins, Known
  <2>2. /\ Updates(r, u)
        /\ \A x \in DOMAIN r.rows :
              /\ u.rows[x].paired = r.rows[x].paired
              /\ u.rows[x].online = r.rows[x].online \/ u.rows[x].online = TRUE
              /\ u.rows[x].seen = IF x = id /\ ~r.rows[id].isSelf THEN now ELSE r.rows[x].seen
    <3>1. Touches(r, id, now, u)
      BY <2>1, TouchSeenEffect
    <3> QED
      BY <3>1 DEF Touches
  <2> QED
    BY <1>2, <2>1, <2>2 DEF Updates, Records
<1> QED
  BY <1>1, <1>2

\* A registry of which rows and secrets went, and whose rows that stay are the
\* same devices, seen when they were; a device that counts as the machine itself
\* was not paired.
Thins(r, u) ==
    /\ Registry(u) /\ u.codes = r.codes
    /\ DOMAIN u.rows \subseteq DOMAIN r.rows
    /\ \A x \in DOMAIN u.rows :
          /\ Alike(u.rows[x], r.rows[x]) /\ u.rows[x].seen = r.rows[x].seen
          /\ u.rows[x].paired => r.rows[x].paired \/ ~r.rows[x].isSelf
    /\ DOMAIN u.secret \subseteq DOMAIN r.secret
    /\ \A x \in DOMAIN u.secret : u.secret[x] = r.secret[x]

\* What is paired stays paired.
Sticks(r, u) ==
    \A x \in DOMAIN r.rows : r.rows[x].paired => x \in DOMAIN u.rows /\ u.rows[x].paired

\* Who was seen lately stays online, but for a row that is merged away.
StaysOnline(r, u, now) ==
    \A x \in DOMAIN r.rows \cap DOMAIN u.rows :
        r.rows[x].online /\ ~u.rows[x].online /\ u.rows[x].heir = None =>
            r.rows[x].seen + OnlineGrace <= now

\* Removals keep what they keep as it is.
LEMMA RemovalsThin ==
  ASSUME NEW r, Registry(r), NEW u, Removes(r, u), NEW now
  PROVE  Thins(r, u) /\ StaysOnline(r, u, now)
<1>1. Thins(r, u)
  BY DEF Removes, Thins, Alike
<1>2. StaysOnline(r, u, now)
  BY DEF Removes, StaysOnline
<1> QED
  BY <1>1, <1>2

\* An alias changes nothing else.
LEMMA UpdateAliasThins ==
  ASSUME NEW r, Registry(r), NEW id \in DOMAIN r.rows, NEW u, u = UpdateAlias(r, id, "alias"),
         NEW now
  PROVE  Thins(r, u) /\ StaysOnline(r, u, now)
<1>1. /\ Updates(r, u)
      /\ \A x \in DOMAIN r.rows :
            /\ u.rows[x].seen = r.rows[x].seen /\ u.rows[x].online = r.rows[x].online
            /\ u.rows[x].paired = r.rows[x].paired
  BY UpdateAliasEffect
<1>2. Thins(r, u)
  BY <1>1 DEF Updates, Thins
<1>3. StaysOnline(r, u, now)
  BY <1>1 DEF StaysOnline
<1> QED
  BY <1>2, <1>3

\* Nor does a synchronisation or the answer to a probe.
LEMMA MarkSyncedThins ==
  ASSUME NEW r, Registry(r), NEW id, NEW now \in Nat, NEW u, u = MarkSynced(r, id, now)
  PROVE  Thins(r, u) /\ Sticks(r, u) /\ StaysOnline(r, u, now) /\ DOMAIN u.rows = DOMAIN r.rows
<1>1. Marks(r, u)
  BY MarkSyncedEffect
<1>2. Thins(r, u) /\ Sticks(r, u) /\ DOMAIN u.rows = DOMAIN r.rows
  BY <1>1 DEF Marks, Updates, Thins, Sticks
<1>3. StaysOnline(r, u, now)
  BY <1>1 DEF Marks, StaysOnline
<1> QED
  BY <1>2, <1>3

\* The answer to a probe.
LEMMA TouchOnlineThins ==
  ASSUME NEW r, Registry(r), NEW id, NEW online \in BOOLEAN, NEW now \in Nat,
         NEW u, u = TouchOnline(r, id, online, now)
  PROVE  Thins(r, u) /\ Sticks(r, u) /\ StaysOnline(r, u, now) /\ DOMAIN u.rows = DOMAIN r.rows
<1>1. Probed(r, u, now)
  BY TouchOnlineEffect
<1>2. Thins(r, u) /\ Sticks(r, u) /\ DOMAIN u.rows = DOMAIN r.rows
  BY <1>1 DEF Probed, Updates, Thins, Sticks
<1>3. StaysOnline(r, u, now)
  BY <1>1 DEF Probed, StaysOnline
<1> QED
  BY <1>2, <1>3

\* merge_device: the row that is merged away is no longer listed, and the other
\* one, which is not the machine's own, may become paired.
LEMMA MergeDeviceThins ==
  ASSUME NEW r, Registry(r), NEW from \in DOMAIN r.rows, NEW to \in DOMAIN r.rows,
         Mergeable(r, from, to), NEW u, u = MergeDevice(r, from, to), NEW now
  PROVE  Thins(r, u) /\ StaysOnline(r, u, now)
<1>1. PICK f, t : f = r.rows[from] /\ t = r.rows[to]
  OBVIOUS
<1>2. /\ f \in Row /\ t \in Row /\ from # to /\ from \in AllIds /\ to \in AllIds
      /\ t.isSelf = FALSE
  <2>1. f \in Row /\ t \in Row /\ from \in AllIds /\ to \in AllIds
    BY <1>1 DEF Registry
  <2>2. from # to /\ ~t.isSelf
    BY <1>1 DEF Mergeable
  <2> QED
    BY <2>1, <2>2, RowFields
<1>3. PICK secret, heir : secret = Drop(r.secret, {from}) /\ heir = Put(r.heir, from, to)
  OBVIOUS
<1>4. PICK f1 : f1 = [f EXCEPT !.heir = to]
  OBVIOUS
<1>5. PICK f2 : f2 = [f1 EXCEPT !.online = FALSE]
  OBVIOUS
<1>6. PICK t5 : t5 = MergedRow(t, f)
  OBVIOUS
<1>7. f2 \in Row /\ Alike(f2, f) /\ f2.seen = f.seen /\ f2.paired = f.paired /\ f2.heir # None
  <2>1. f1 \in Row /\ Alike(f1, f) /\ f1.seen = f.seen /\ f1.paired = f.paired /\ f1.heir = to
    BY <1>2, <1>4 DEF Row, Alike
  <2>2. /\ f2 \in Row /\ Alike(f2, f1) /\ f2.seen = f1.seen /\ f2.paired = f1.paired
        /\ f2.heir = f1.heir
    BY <1>5, <2>1 DEF Row, Alike
  <2>3. to # None
    BY <1>2, PairingAssumption
  <2> QED
    BY <2>1, <2>2, <2>3 DEF Alike
<1>8. t5 \in Row /\ Alike(t5, t) /\ t5.seen = t.seen /\ t5.online = t.online
  <2>1. PICK alias, paired, pairedAt, synced, uid :
            /\ alias = Coalesce(t.alias, f.alias) /\ paired = (t.paired \/ f.paired)
            /\ pairedAt = Min({t.pairedAt, f.pairedAt}) /\ synced = Coalesce(t.synced, f.synced)
            /\ uid = Coalesce(t.uid, f.uid)
    OBVIOUS
  <2>2. /\ alias \in {None, "alias"} /\ paired \in BOOLEAN /\ synced \in Nat \cup {None}
        /\ uid \in Machine \cup {None}
    BY <1>2, <2>1, RowFields DEF Coalesce
  <2>3. pairedAt \in Nat
    <3>1. t.pairedAt \in Nat /\ f.pairedAt \in Nat
      BY <1>2, RowFields
    <3>2. \E x \in {t.pairedAt, f.pairedAt} : \A y \in {t.pairedAt, f.pairedAt} : x <= y
      BY <3>1
    <3> QED
      BY <2>1, <3>1, <3>2 DEF Min
  <2>4. PICK t1 : t1 = [t EXCEPT !.alias = alias]
    OBVIOUS
  <2>5. PICK t2 : t2 = [t1 EXCEPT !.paired = paired]
    OBVIOUS
  <2>6. PICK t3 : t3 = [t2 EXCEPT !.pairedAt = pairedAt]
    OBVIOUS
  <2>7. PICK t4 : t4 = [t3 EXCEPT !.synced = synced]
    OBVIOUS
  <2>8. t1 \in Row /\ Alike(t1, t) /\ t1.seen = t.seen /\ t1.online = t.online
    BY <1>2, <2>2, <2>4 DEF Row, Alike
  <2>9. t2 \in Row /\ Alike(t2, t1) /\ t2.seen = t1.seen /\ t2.online = t1.online
    BY <2>2, <2>5, <2>8 DEF Row, Alike
  <2>10. t3 \in Row /\ Alike(t3, t2) /\ t3.seen = t2.seen /\ t3.online = t2.online
    BY <2>3, <2>6, <2>9 DEF Row, Alike
  <2>11. t4 \in Row /\ Alike(t4, t3) /\ t4.seen = t3.seen /\ t4.online = t3.online
    BY <2>2, <2>7, <2>10 DEF Row, Alike
  <2>12. t5 = [t4 EXCEPT !.uid = uid]
    BY <1>6, <2>1, <2>4, <2>5, <2>6, <2>7 DEF MergedRow
  <2>13. t5 \in Row /\ Alike(t5, t4) /\ t5.seen = t4.seen /\ t5.online = t4.online
    BY <2>2, <2>11, <2>12 DEF Row, Alike
  <2> QED
    BY <2>8, <2>9, <2>10, <2>11, <2>13 DEF Alike
<1>9. PICK rows1 : rows1 = [r.rows EXCEPT ![from] = f2]
  OBVIOUS
<1>10. PICK rows2 : rows2 = [rows1 EXCEPT ![to] = t5]
  OBVIOUS
<1>11. u = [rows |-> rows2, secret |-> secret, heir |-> heir, codes |-> r.codes]
  <2>1. PICK rows0 : rows0 = [r.rows EXCEPT ![from] = f1]
    OBVIOUS
  <2>2. rows0[from] = f1 /\ [rows0 EXCEPT ![from] = f2] = rows1 /\ rows1[to] = t
    BY <1>1, <1>2, <1>9, <2>1
  <2>3. rows1 = [r.rows EXCEPT ![from].heir = to, ![from].online = FALSE]
    BY <1>1, <1>4, <1>5, <2>1, <2>2
  <2>4. rows2 = [r.rows EXCEPT ![from].heir = to, ![from].online = FALSE,
                               ![to] = MergedRow(r.rows[to], r.rows[from])]
    BY <1>1, <1>6, <1>10, <2>2, <2>3
  <2>5. PICK r1 : r1 = [r EXCEPT !.secret = secret]
    OBVIOUS
  <2>6. PICK r2 : r2 = [r1 EXCEPT !.heir = heir]
    OBVIOUS
  <2>7. r1 = [rows |-> r.rows, secret |-> secret, heir |-> r.heir, codes |-> r.codes]
    BY <2>5, RegistryFields
  <2>8. r2 = [rows |-> r.rows, secret |-> secret, heir |-> heir, codes |-> r.codes]
    BY <2>6, <2>7
  <2>9. u = [r2 EXCEPT !.rows = rows2]
    <3>1. u = [r EXCEPT !.secret = secret, !.heir = heir, !.rows = rows2]
      BY <1>3, <2>4 DEF MergeDevice
    <3> QED
      BY <2>5, <2>6, <3>1
  <2> QED
    BY <2>8, <2>9
<1>12. /\ u.rows = rows2 /\ u.secret = secret /\ u.codes = r.codes
       /\ u = [rows |-> u.rows, secret |-> u.secret, heir |-> u.heir, codes |-> u.codes]
  BY <1>11
<1>13. /\ DOMAIN rows2 = DOMAIN r.rows /\ rows2[from] = f2 /\ rows2[to] = t5
       /\ \A x \in DOMAIN r.rows \ {from, to} : rows2[x] = r.rows[x]
  BY <1>2, <1>9, <1>10
<1>14. DOMAIN secret \subseteq DOMAIN r.secret /\ \A x \in DOMAIN secret : secret[x] = r.secret[x]
  BY <1>3 DEF Drop, Restrict
<1>15. Registry(u)
  BY <1>7, <1>8, <1>12, <1>13, <1>14 DEF Registry
<1>16. Thins(r, u)
  BY <1>1, <1>2, <1>7, <1>8, <1>12, <1>13, <1>14, <1>15 DEF Thins, Alike
<1>17. StaysOnline(r, u, now)
  BY <1>1, <1>7, <1>8, <1>12, <1>13 DEF StaysOnline
<1> QED
  BY <1>16, <1>17

\* A handshake: the device is where it says, another machine and there; it does
\* not lose its pairing, and no other row changes.
Meets(r, id, w, u) ==
    /\ Registry(u)
    /\ DOMAIN u.rows = DOMAIN r.rows \cup {id}
    /\ \A x \in DOMAIN r.rows \ {id} :
          /\ Alike(u.rows[x], r.rows[x]) /\ u.rows[x].seen = r.rows[x].seen
          /\ (u.rows[x].online <=> r.rows[x].online) /\ (u.rows[x].paired <=> r.rows[x].paired)
    /\ u.rows[id].addr = w.addr /\ u.rows[id].seen = w.seen
    /\ ~u.rows[id].isSelf /\ u.rows[id].online
    /\ u.rows[id].via = IF Known(r, id) THEN r.rows[id].via ELSE None
    /\ Known(r, id) => u.rows[id].viaAt = r.rows[id].viaAt
    /\ Known(r, id) /\ r.rows[id].paired => u.rows[id].paired

\* Writing a description of another machine is a meeting, if it does not undo a
\* pairing.
LEMMA UpsertMeets ==
  ASSUME NEW r, Registry(r), NEW id \in AllIds, NEW v \in Device, NEW u, u = UpsertDevice(r, id, v),
         ~v.isSelf, Known(r, id) /\ r.rows[id].paired => v.paired
  PROVE  Meets(r, id, v, u) /\ u.secret = r.secret /\ u.codes = r.codes
<1>1. Upserts(r, id, v, u)
  BY UpsertEffect
<1>2. Meets(r, id, v, u)
  BY <1>1 DEF Upserts, Meets, Alike
<1>3. u.secret = r.secret /\ u.codes = r.codes
  BY <1>1 DEF Upserts
<1> QED
  BY <1>2, <1>3

\* Only the address and the time of the description matter for a meeting.
LEMMA MeetsAs ==
  ASSUME NEW r, NEW id, NEW v, NEW w, NEW u, Meets(r, id, v, u), v.addr = w.addr, v.seen = w.seen
  PROVE  Meets(r, id, w, u)
  BY DEF Meets

\* refresh_peer is a meeting.
LEMMA RefreshPeerMeets ==
  ASSUME NEW r, Registry(r), NEW id \in AllIds, NEW w \in Device, NEW u, u = RefreshPeer(r, id, w)
  PROVE  Meets(r, id, w, u) /\ u.secret = r.secret /\ u.codes = r.codes
<1>1. PICK w1 : w1 = [w EXCEPT !.isSelf = FALSE]
  OBVIOUS
<1>2. w1 \in Device /\ w1.addr = w.addr /\ w1.seen = w.seen /\ ~w1.isSelf /\ w1.synced = w.synced
  BY <1>1 DEF Device
<1>3. CASE ~Known(r, id)
  <2>1. u = UpsertDevice(r, id, w1)
    BY <1>1, <1>3 DEF RefreshPeer
  <2>2. Meets(r, id, w1, u) /\ u.secret = r.secret /\ u.codes = r.codes
    BY <1>2, <1>3, <2>1, UpsertMeets
  <2> QED
    BY <1>2, <2>2, MeetsAs
<1>4. CASE Known(r, id)
  <2>1. PICK old : old = r.rows[id]
    OBVIOUS
  <2>2. old \in Row
    BY <1>4, <2>1 DEF Known, Registry
  <2>3. PICK synced : synced = Coalesce(w.synced, old.synced)
    OBVIOUS
  <2>4. /\ old.paired \in BOOLEAN /\ old.alias \in {None, "alias"}
        /\ synced \in Nat \cup {None}
    BY <2>2, <2>3, RowFields DEF Device, Coalesce
  <2>5. PICK w2 : w2 = [w1 EXCEPT !.paired = old.paired]
    OBVIOUS
  <2>6. PICK w3 : w3 = [w2 EXCEPT !.alias = old.alias]
    OBVIOUS
  <2>7. PICK w4 : w4 = [w3 EXCEPT !.synced = synced]
    OBVIOUS
  <2>8. /\ w2 \in Device /\ w2.addr = w.addr /\ w2.seen = w.seen /\ ~w2.isSelf
        /\ w2.paired = old.paired /\ w2.synced = w.synced
    BY <1>2, <2>4, <2>5 DEF Device
  <2>9. /\ w3 \in Device /\ w3.addr = w.addr /\ w3.seen = w.seen /\ ~w3.isSelf
        /\ w3.paired = old.paired /\ w3.synced = w.synced
    BY <2>4, <2>6, <2>8 DEF Device
  <2>10. /\ w4 \in Device /\ w4.addr = w.addr /\ w4.seen = w.seen /\ ~w4.isSelf
         /\ w4.paired = old.paired
    BY <2>4, <2>7, <2>9 DEF Device
  <2>11. w4 = [w EXCEPT !.isSelf = FALSE, !.paired = r.rows[id].paired,
                        !.alias = r.rows[id].alias,
                        !.synced = Coalesce(@, r.rows[id].synced)]
    BY <1>1, <2>1, <2>3, <2>5, <2>6, <2>7, <2>9
  <2>12. u = UpsertDevice(r, id, w4)
    BY <1>4, <2>11 DEF RefreshPeer
  <2>13. Meets(r, id, w4, u) /\ u.secret = r.secret /\ u.codes = r.codes
    BY <2>1, <2>10, <2>12, UpsertMeets
  <2> QED
    BY <2>10, <2>13, MeetsAs
<1> QED
  BY <1>3, <1>4

\* Setting a secret between meetings, or the codes, changes no row.
LEMMA MeetsRows ==
  ASSUME NEW r, NEW id, NEW w, NEW u, Meets(r, id, w, u), NEW r2, r2.rows = r.rows
  PROVE  \A u2 : Registry(u2) /\ u2.rows = u.rows => Meets(r2, id, w, u2)
  BY DEF Meets, Known

\* Pairing the device that was met is part of the meeting.
LEMMA PairingMeets ==
  ASSUME NEW r, NEW id, NEW w, NEW mid, Meets(r, id, w, mid),
         NEW u, PairsWith(mid, id, u)
  PROVE  Meets(r, id, w, u) /\ u.secret = mid.secret /\ u.codes = mid.codes /\ u.rows[id].paired
<1>1. /\ id \in DOMAIN mid.rows /\ DOMAIN u.rows = DOMAIN mid.rows
      /\ u.secret = mid.secret /\ u.codes = mid.codes /\ Registry(u)
  BY DEF Meets, PairsWith, Updates
<1>2. \A x \in DOMAIN mid.rows : Alike(u.rows[x], mid.rows[x])
  BY DEF PairsWith, Updates
<1>3. Alike(u.rows[id], mid.rows[id])
  BY <1>1, <1>2
<1>4. u.rows[id].paired
  BY <1>1 DEF PairsWith
<1>5. Meets(r, id, w, u)
  BY <1>1, <1>2, <1>3, <1>4 DEF Meets, Alike, PairsWith
<1> QED
  BY <1>1, <1>4, <1>5

\* What pair_request does.
LEMMA PairRequestEffect ==
  ASSUME NEW r, Registry(r), NEW q, q.id \in AllIds, NEW s, NEW u, u = PairRequest(r, q, s)
  PROVE  Registry(u) /\ u.rows = r.rows /\ u.codes = r.codes /\ Shares(r, q.id, s, u)
<1>1. u = SetSecret(r, q.id, s)
  BY DEF PairRequest, AdoptIncomingSecret
<1> QED
  BY <1>1, SetSecretEffect

\* pair_confirm is a meeting that pairs and shares a secret.
LEMMA PairConfirmEffect ==
  ASSUME NEW r, Registry(r), NEW q, q.id \in AllIds, q.me \in Device, NEW s,
         NEW u, u = PairConfirm(r, q, s)
  PROVE  /\ Meets(r, q.id, q.me, u) /\ u.codes = r.codes /\ Shares(r, q.id, s, u)
<1>1. PICK id, w : id = q.id /\ w = q.me
  OBVIOUS
<1>2. PICK met : met = RefreshPeer(r, id, w)
  OBVIOUS
<1>3. PICK kept : kept = SetSecret(met, id, s)
  OBVIOUS
<1>4. u = SetPaired(kept, id)
  BY <1>1, <1>2, <1>3 DEF PairConfirm, AdoptIncomingSecret
<1>5. Meets(r, id, w, met) /\ met.secret = r.secret /\ met.codes = r.codes
  BY <1>1, <1>2, RefreshPeerMeets
<1>6. Registry(met)
  BY <1>5 DEF Meets
<1>7. Registry(kept) /\ kept.rows = met.rows /\ kept.codes = met.codes /\ Shares(met, id, s, kept)
  BY <1>1, <1>3, <1>6, SetSecretEffect
<1>8. Meets(r, id, w, kept)
  BY <1>5, <1>7, MeetsRows
<1>9. PairsWith(kept, id, u)
  BY <1>4, <1>7, SetPairedEffect
<1>10. Meets(r, id, w, u) /\ u.secret = kept.secret /\ u.codes = kept.codes
  BY <1>8, <1>9, PairingMeets
<1>11. Shares(r, id, s, u)
  BY <1>5, <1>7, <1>10 DEF Shares
<1> QED
  BY <1>1, <1>5, <1>7, <1>10, <1>11

\* join is a meeting that pairs, shares a secret and spends the code.
LEMMA JoinEffect ==
  ASSUME NEW r, Registry(r), NEW q, q.id \in AllIds, q.me \in Device, NEW s,
         NEW u, u = Join(r, q, s)
  PROVE  /\ Meets(r, q.id, q.me, u) /\ Shares(r, q.id, s, u)
         /\ DOMAIN u.codes = DOMAIN r.codes \ {q.code}
<1>1. PICK id, w : id = q.id /\ w = q.me
  OBVIOUS
<1>2. PICK w1 : w1 = [w EXCEPT !.paired = TRUE]
  OBVIOUS
<1>3. PICK v : v = [w1 EXCEPT !.isSelf = FALSE]
  OBVIOUS
<1>4. /\ w1 \in Device /\ w1.addr = w.addr /\ w1.seen = w.seen /\ w1.paired = TRUE
  BY <1>1, <1>2 DEF Device
<1>5. /\ v \in Device /\ v.addr = w.addr /\ v.seen = w.seen /\ v.paired /\ ~v.isSelf
  BY <1>3, <1>4 DEF Device
<1>6. PICK met : met = UpsertDevice(r, id, v)
  OBVIOUS
<1>7. Meets(r, id, v, met) /\ met.secret = r.secret /\ met.codes = r.codes
  BY <1>1, <1>5, <1>6, UpsertMeets
<1>8. Registry(met) /\ met.codes = r.codes
  BY <1>7 DEF Meets
<1>9. PICK codes : codes = Drop(r.codes, {q.code})
  OBVIOUS
<1>10. PICK spent : spent = WithCodes(met, codes)
  OBVIOUS
<1>11. JoinWithCode(r, q.code, id, w) = spent
  BY <1>2, <1>3, <1>6, <1>8, <1>9, <1>10 DEF JoinWithCode, WithCodes
<1>12. Registry(spent) /\ spent.rows = met.rows /\ spent.secret = met.secret /\ spent.codes = codes
  BY <1>8, <1>10, PutCodes
<1>13. PICK joined : joined = SetSecret(spent, id, s)
  OBVIOUS
<1>14. /\ Registry(joined) /\ joined.rows = spent.rows /\ joined.codes = spent.codes
       /\ Shares(spent, id, s, joined)
  BY <1>1, <1>12, <1>13, SetSecretEffect
<1>15. Meets(r, id, v, joined) /\ joined.rows = met.rows
  BY <1>7, <1>12, <1>14, MeetsRows
<1>16. joined.rows[id].isSelf = FALSE /\ id \in DOMAIN joined.rows
  <2>1. id \in DOMAIN met.rows /\ ~met.rows[id].isSelf
    BY <1>7 DEF Meets
  <2>2. met.rows[id].isSelf \in BOOLEAN
    BY <1>8, <2>1, RowFields DEF Registry
  <2> QED
    BY <1>15, <2>1, <2>2
<1>17. u = UpsertDevice(joined, id, v)
  <2>1. u = UpsertDevice(joined, id, [w EXCEPT !.paired = TRUE, !.isSelf = joined.rows[id].isSelf])
    BY <1>1, <1>11, <1>13 DEF Join, AdoptIncomingSecret
  <2>2. v = [w EXCEPT !.paired = TRUE, !.isSelf = joined.rows[id].isSelf]
    BY <1>2, <1>3, <1>16
  <2> QED
    BY <2>1, <2>2
<1>18. Upserts(joined, id, v, u)
  BY <1>1, <1>5, <1>14, <1>17, UpsertEffect
<1>19. Meets(r, id, v, u) /\ u.secret = joined.secret /\ u.codes = codes
  <2>1. /\ Registry(u) /\ u.secret = joined.secret /\ u.codes = codes
        /\ DOMAIN u.rows = DOMAIN r.rows \cup {id}
        /\ \A x \in DOMAIN r.rows \ {id} : u.rows[x] = joined.rows[x]
    BY <1>12, <1>14, <1>15, <1>18 DEF Upserts, Meets
  <2>2. \A x \in DOMAIN r.rows \ {id} :
          /\ Alike(u.rows[x], r.rows[x]) /\ u.rows[x].seen = r.rows[x].seen
          /\ (u.rows[x].online <=> r.rows[x].online) /\ (u.rows[x].paired <=> r.rows[x].paired)
    BY <1>15, <2>1 DEF Meets
  <2>3. /\ u.rows[id].addr = v.addr /\ u.rows[id].seen = v.seen
        /\ ~u.rows[id].isSelf /\ u.rows[id].online /\ u.rows[id].paired
        /\ u.rows[id].via = joined.rows[id].via /\ u.rows[id].viaAt = joined.rows[id].viaAt
    BY <1>5, <1>16, <1>18 DEF Upserts, Known
  <2>4. /\ joined.rows[id].via = IF Known(r, id) THEN r.rows[id].via ELSE None
        /\ Known(r, id) => joined.rows[id].viaAt = r.rows[id].viaAt
    BY <1>15 DEF Meets
  <2> QED
    BY <2>1, <2>2, <2>3, <2>4 DEF Meets
<1>20. Meets(r, id, w, u)
  BY <1>5, <1>19, MeetsAs
<1>21. Shares(r, id, s, u)
  BY <1>7, <1>12, <1>14, <1>19 DEF Shares
<1>22. DOMAIN codes = DOMAIN r.codes \ {q.code}
  BY <1>9 DEF Drop, Restrict
<1> QED
  BY <1>1, <1>19, <1>20, <1>21, <1>22

-----------------------------------------------------------------------------
(* What keeps the rows good                                                *)

\* Rows that stay as they were, with the history of those that are there.
LEMMA ThinsGood ==
  ASSUME NEW m, NEW r, NEW u, NEW sp, NEW sp2, NEW now,
         RowsGood(m, r, sp, now), Thins(r, u),
         \A id \in AllIds : sp2[id] = IF id \in DOMAIN u.rows THEN sp[id] ELSE Silence[id]
  PROVE  RowsGood(m, u, sp2, now)
<1>1. Registry(u)
  BY DEF Thins
<1>2. ASSUME NEW id \in AllIds
      PROVE  RowGood(m, u, id, sp2[id], now)
  <2>1. CASE id \notin DOMAIN u.rows
    BY <2>1 DEF RowGood, Known, Silence
  <2>2. CASE id \in DOMAIN u.rows
    <3>1. RowGood(m, r, id, sp[id], now) /\ Known(r, id) /\ sp2[id] = sp[id]
      BY <2>2 DEF RowsGood, Known, Thins
    <3>2. /\ Alike(u.rows[id], r.rows[id]) /\ u.rows[id].seen = r.rows[id].seen
          /\ u.rows[id].paired => r.rows[id].paired \/ ~r.rows[id].isSelf
      BY <2>2 DEF Thins
    <3> QED
      BY <2>2, <3>1, <3>2 DEF RowGood, Known, Alike, Attested
  <2> QED
    BY <2>1, <2>2
<1> QED
  BY <1>1, <1>2 DEF RowsGood

\* A meeting with the word of the machine whose id it is; when it was sent is
\* the sign of life that counts.
LEMMA MeetsGood ==
  ASSUME NEW m, NEW r, NEW u, NEW sp, NEW sp2, NEW now \in Nat, NEW id \in AllIds, NEW w,
         RowsGood(m, r, sp, now), Meets(r, id, w, u),
         Owner(id) # m, Issued(id), w.addr = Owner(id), w.seen \in Nat, w.seen <= now,
         \A x \in AllIds \ {id} : sp2[x] = sp[x],
         sp2[id].mdnsAt = sp[id].mdnsAt,
         sp2[id].heardAt # None => sp2[id].heardAt <= w.seen /\ sp2[id].heardAt <= now
  PROVE  RowsGood(m, u, sp2, now)
<1>1. Registry(u)
  BY DEF Meets
<1>2. ASSUME NEW x \in AllIds, x # id
      PROVE  RowGood(m, u, x, sp2[x], now)
  <2>1. RowGood(m, r, x, sp[x], now) /\ sp2[x] = sp[x]
    BY <1>2 DEF RowsGood
  <2>2. x \in DOMAIN u.rows <=> x \in DOMAIN r.rows
    BY <1>2 DEF Meets
  <2>3. CASE x \notin DOMAIN u.rows
    BY <2>1, <2>2, <2>3 DEF RowGood, Known
  <2>4. CASE x \in DOMAIN u.rows
    <3>1. /\ Alike(u.rows[x], r.rows[x]) /\ u.rows[x].seen = r.rows[x].seen
          /\ (u.rows[x].paired <=> r.rows[x].paired)
      BY <1>2, <2>2, <2>4 DEF Meets
    <3> QED
      BY <2>1, <2>2, <2>4, <3>1 DEF RowGood, Known, Alike, Attested
  <2> QED
    BY <2>3, <2>4
<1>3. RowGood(m, u, id, sp2[id], now)
  <2>1. /\ Known(u, id) /\ u.rows[id].addr = Owner(id) /\ u.rows[id].seen = w.seen
        /\ ~u.rows[id].isSelf
        /\ u.rows[id].via = IF Known(r, id) THEN r.rows[id].via ELSE None
        /\ Known(r, id) => u.rows[id].viaAt = r.rows[id].viaAt
    BY DEF Meets, Known
  <2>2. RowGood(m, r, id, sp[id], now)
    BY DEF RowsGood
  <2>3. CASE Known(r, id)
    <3>1. Attested(r.rows[id], sp[id], now)
      BY <2>2, <2>3 DEF RowGood
    <3>2. Attested(u.rows[id], sp2[id], now)
      BY <2>1, <2>3, <3>1 DEF Attested
    <3> QED
      BY <2>1, <3>2 DEF RowGood
  <2>4. CASE ~Known(r, id)
    <3>1. sp2[id].mdnsAt = None
      BY <2>2, <2>4 DEF RowGood
    <3>2. Attested(u.rows[id], sp2[id], now)
      BY <2>1, <2>4, <3>1, PairingAssumption DEF Attested
    <3> QED
      BY <2>1, <3>2 DEF RowGood
  <2> QED
    BY <2>3, <2>4
<1> QED
  BY <1>1, <1>2, <1>3 DEF RowsGood

\* A device that pushes and is not known: it is entered as it describes itself,
\* unpaired, and nothing has been heard of it.
LEMMA PushGood ==
  ASSUME NEW m, NEW r, NEW u, NEW sp, NEW now, NEW id \in AllIds, NEW w \in Device,
         RowsGood(m, r, sp, now), u = UpsertDevice(r, id, w), ~Known(r, id),
         Owner(id) # m, Issued(id), w.addr = Owner(id), ~w.paired
  PROVE  RowsGood(m, u, sp, now)
<1>1. Upserts(r, id, w, u)
  BY UpsertEffect DEF RowsGood
<1>2. Registry(u)
  BY <1>1 DEF Upserts
<1>3. ASSUME NEW x \in AllIds, x # id
      PROVE  RowGood(m, u, x, sp[x], now)
  <2>1. RowGood(m, r, x, sp[x], now)
    BY DEF RowsGood
  <2>2. x \in DOMAIN u.rows <=> x \in DOMAIN r.rows
    BY <1>1, <1>3 DEF Upserts
  <2>3. x \in DOMAIN r.rows => u.rows[x] = r.rows[x]
    BY <1>1, <1>3 DEF Upserts
  <2> QED
    BY <2>1, <2>2, <2>3 DEF RowGood, Known
<1>4. RowGood(m, u, id, sp[id], now)
  <2>1. sp[id] = [mdnsAt |-> None, heardAt |-> None]
    BY DEF RowsGood, RowGood
  <2>2. /\ Known(u, id) /\ u.rows[id].addr = Owner(id) /\ u.rows[id].paired = w.paired
        /\ u.rows[id].via = None
    BY <1>1 DEF Upserts, Known
  <2>3. Attested(u.rows[id], sp[id], now)
    BY <2>1, <2>2, PairingAssumption DEF Attested
  <2> QED
    BY <2>2, <2>3 DEF RowGood
<1> QED
  BY <1>2, <1>3, <1>4 DEF RowsGood

\* A device that is paired is another machine, or goes by an id it no longer has.
LEMMA PairsGood ==
  ASSUME NEW m, NEW r, NEW u, NEW sp, NEW now, NEW id,
         RowsGood(m, r, sp, now), PairsWith(r, id, u),
         Known(r, id) /\ Current(id) => ~r.rows[id].isSelf
  PROVE  RowsGood(m, u, sp, now)
<1>1. Registry(u) /\ DOMAIN u.rows = DOMAIN r.rows
  BY DEF PairsWith, Updates
<1>2. ASSUME NEW x \in AllIds
      PROVE  RowGood(m, u, x, sp[x], now)
  <2>1. RowGood(m, r, x, sp[x], now)
    BY DEF RowsGood
  <2>2. CASE x \notin DOMAIN u.rows
    BY <1>1, <2>1, <2>2 DEF RowGood, Known
  <2>3. CASE x \in DOMAIN u.rows
    <3>1. /\ Alike(u.rows[x], r.rows[x]) /\ u.rows[x].seen = r.rows[x].seen
          /\ (u.rows[x].paired <=> r.rows[x].paired \/ x = id)
      BY <1>1, <2>3 DEF PairsWith, Updates
    <3> QED
      BY <1>1, <2>1, <2>3, <3>1 DEF RowGood, Known, Alike, Attested
  <2> QED
    BY <2>2, <2>3
<1> QED
  BY <1>1, <1>2 DEF RowsGood

\* Whether a broadcast is written depends on what mDNS has said and when: the row
\* does not forget it.
LEMMA BroadcastWins ==
  ASSUME NEW m, NEW r, NEW sp, NEW now \in Nat, NEW id \in AllIds, RowsGood(m, r, sp, now),
         sp[id] \in Saying
  PROVE  SourceWins(r, id, "udp", now) <=>
             ~(sp[id].mdnsAt # None /\ now - sp[id].mdnsAt < MdnsFresh)
<1>1. RowGood(m, r, id, sp[id], now) /\ sp[id].mdnsAt \in Nat \cup {None} /\ MdnsFresh \in Nat
  BY DeviceTableAssumption DEF RowsGood, Saying
<1>2. CASE ~Known(r, id)
  BY <1>1, <1>2 DEF RowGood, SourceWins
<1>3. CASE Known(r, id)
  <2>1. Attested(r.rows[id], sp[id], now)
    BY <1>1, <1>3 DEF RowGood
  <2>2. CASE sp[id].mdnsAt = None
    BY <2>1, <2>2 DEF Attested, SourceWins
  <2>3. CASE sp[id].mdnsAt # None
    <3>1. sp[id].mdnsAt \in Nat
      BY <1>1, <2>3
    <3>2. CASE r.rows[id].via = "mdns"
      BY <1>1, <1>3, <2>1, <2>3, <3>1, <3>2 DEF Attested, SourceWins
    <3>3. CASE r.rows[id].via # "mdns"
      BY <1>1, <1>3, <2>1, <2>3, <3>1, <3>3 DEF Attested, SourceWins
    <3> QED
      BY <3>2, <3>3
  <2> QED
    BY <2>2, <2>3
<1> QED
  BY <1>2, <1>3

\* What the history makes of an announcement.
HearsOf(sp, id, via, now, sp2) ==
    /\ \A x \in AllIds \ {id} : sp2[x] = sp[x]
    /\ sp2[id].mdnsAt = IF via = "mdns" THEN now ELSE sp[id].mdnsAt
    /\ sp2[id].heardAt = now

\* It keeps the rows good.
LEMMA RecordsGood ==
  ASSUME NEW m, NEW r, NEW u, NEW sp, NEW sp2, NEW now \in Nat, NEW id \in AllIds,
         NEW addr, NEW via \in {"mdns", "udp"},
         RowsGood(m, r, sp, now), Records(r, id, addr, via, now, u), sp[id] \in Saying,
         Owner(id) # m, Issued(id), addr \in {Owner(id), "nobody"},
         HearsOf(sp, id, via, now, sp2)
  PROVE  RowsGood(m, u, sp2, now)
<1>a. /\ \A x \in AllIds \ {id} : sp2[x] = sp[x]
      /\ sp2[id].mdnsAt = IF via = "mdns" THEN now ELSE sp[id].mdnsAt
      /\ sp2[id].heardAt = now
  BY DEF HearsOf
<1>1. Registry(u)
  BY DEF Records
<1>2. ASSUME NEW x \in AllIds, x # id
      PROVE  RowGood(m, u, x, sp2[x], now)
  <2>1. RowGood(m, r, x, sp[x], now) /\ sp2[x] = sp[x]
    BY <1>a, <1>2 DEF RowsGood
  <2>2. x \in DOMAIN u.rows <=> x \in DOMAIN r.rows
    BY <1>2 DEF Records
  <2>3. CASE x \notin DOMAIN u.rows
    BY <2>1, <2>2, <2>3 DEF RowGood, Known
  <2>4. CASE x \in DOMAIN u.rows
    <3>1. /\ Alike(u.rows[x], r.rows[x]) /\ u.rows[x].seen = r.rows[x].seen
          /\ u.rows[x].paired = r.rows[x].paired
      BY <1>2, <2>2, <2>4 DEF Records
    <3> QED
      BY <2>1, <2>2, <2>4, <3>1 DEF RowGood, Known, Alike, Attested
  <2> QED
    BY <2>3, <2>4
<1>3. RowGood(m, u, id, sp2[id], now)
  <2>1. Known(u, id) /\ RowGood(m, r, id, sp[id], now)
    BY DEF RowsGood, Records, Known
  <2>2. CASE SourceWins(r, id, via, now)
    <3>1. /\ u.rows[id].addr = addr /\ ~u.rows[id].isSelf
          /\ u.rows[id].seen = now /\ u.rows[id].via = via /\ u.rows[id].viaAt = now
      BY <2>2 DEF Records
    <3>2. CASE via = "mdns"
      <4>1. Attested(u.rows[id], sp2[id], now)
        BY <1>a, <3>1, <3>2, NullAssumption DEF Attested
      <4> QED
        BY <2>1, <3>1, <4>1 DEF RowGood
    <3>3. CASE via = "udp"
      <4>1. ~(sp[id].mdnsAt # None /\ now - sp[id].mdnsAt < MdnsFresh)
        BY <2>2, <3>3, BroadcastWins
      <4>2. sp[id].mdnsAt # None => sp[id].mdnsAt <= now
        BY <2>1, NullAssumption DEF RowGood, Attested
      <4>3. sp[id].mdnsAt # None => sp[id].mdnsAt \in Nat
        BY DEF Saying
      <4>4. sp2[id].mdnsAt # None => sp2[id].mdnsAt + MdnsFresh <= now
        BY <1>a, <3>3, <4>1, <4>3, DeviceTableAssumption
      <4>5. Attested(u.rows[id], sp2[id], now)
        BY <1>a, <3>1, <3>3, <4>2, <4>4 DEF Attested
      <4> QED
        BY <2>1, <3>1, <4>5 DEF RowGood
    <3> QED
      BY <3>2, <3>3
  <2>3. CASE ~SourceWins(r, id, via, now)
    <3>1. /\ via = "udp" /\ Known(r, id) /\ r.rows[id].via = "mdns"
      BY <2>3 DEF SourceWins
    <3>2. Attested(r.rows[id], sp[id], now) /\ ~r.rows[id].isSelf
      BY <2>1, <3>1, PairingAssumption DEF RowGood, Attested
    <3>3. /\ Alike(u.rows[id], r.rows[id]) /\ u.rows[id].seen = now
      BY <2>3, <3>2 DEF Records
    <3>4. Attested(u.rows[id], sp2[id], now)
      BY <1>a, <3>1, <3>2, <3>3 DEF Attested, Alike
    <3> QED
      BY <2>1, <3>1, <3>2, <3>3, <3>4 DEF RowGood, Alike
  <2> QED
    BY <2>2, <2>3
<1> QED
  BY <1>1, <1>2, <1>3 DEF RowsGood

\* Who is online stays online.
StaysLit(r, u) ==
    \A x \in DOMAIN r.rows : r.rows[x].online => x \in DOMAIN u.rows /\ u.rows[x].online

\* Meetings, announcements and pushes undo no pairing and mark nobody offline.
LEMMA WritesStick ==
  ASSUME NEW r, NEW u, NEW now,
         \/ \E id, w : Meets(r, id, w, u)
         \/ \E id, addr, via : Records(r, id, addr, via, now, u)
         \/ \E id, w : Upserts(r, id, w, u) /\ ~Known(r, id)
         \/ \E id : PairsWith(r, id, u)
         \/ u.rows = r.rows
  PROVE  Sticks(r, u) /\ StaysLit(r, u)
<1>1. CASE \E id, w : Meets(r, id, w, u)
  <2>1. PICK id, w : Meets(r, id, w, u)
    BY <1>1
  <2>2. DOMAIN r.rows \subseteq DOMAIN u.rows
    BY <2>1 DEF Meets
  <2>3. ASSUME NEW x \in DOMAIN r.rows
        PROVE  /\ r.rows[x].paired => u.rows[x].paired
               /\ r.rows[x].online => u.rows[x].online
    BY <2>1 DEF Meets, Known
  <2> QED
    BY <2>2, <2>3 DEF Sticks, StaysLit
<1>2. CASE \E id, addr, via : Records(r, id, addr, via, now, u)
  <2>1. PICK id, addr, via : Records(r, id, addr, via, now, u)
    BY <1>2
  <2>2. DOMAIN r.rows \subseteq DOMAIN u.rows
    BY <2>1 DEF Records
  <2>3. ASSUME NEW x \in DOMAIN r.rows
        PROVE  /\ r.rows[x].paired => u.rows[x].paired
               /\ r.rows[x].online => u.rows[x].online
    BY <2>1 DEF Records, Known
  <2> QED
    BY <2>2, <2>3 DEF Sticks, StaysLit
<1>3. CASE \E id, w : Upserts(r, id, w, u) /\ ~Known(r, id)
  BY <1>3 DEF Upserts, Known, Sticks, StaysLit
<1>4. CASE \E id : PairsWith(r, id, u)
  BY <1>4 DEF PairsWith, Updates, Sticks, StaysLit
<1>5. CASE u.rows = r.rows
  BY <1>5 DEF Sticks, StaysLit
<1> QED
  BY <1>1, <1>2, <1>3, <1>4, <1>5

\* One after the other.
LEMMA StickOn ==
  ASSUME NEW r, NEW u, NEW v, Sticks(r, u), StaysLit(r, u), Sticks(u, v), StaysLit(u, v), NEW now
  PROVE  Sticks(r, v) /\ StaysLit(r, v) /\ StaysOnline(r, v, now)
  BY DEF Sticks, StaysLit, StaysOnline

\* The answer of a handshake: its secret is set, and then its sender is met.
LEMMA AnswerEffect ==
  ASSUME NEW r, Registry(r), NEW id \in AllIds, NEW w \in Device, NEW peer \in AllIds, NEW s,
         NEW u, u = RefreshPeer(AbsorbSecret(r, peer, s), id, w)
  PROVE  Meets(r, id, w, u) /\ Shares(r, peer, s, u) /\ u.codes = r.codes
<1>1. PICK mid : mid = SetSecret(r, peer, s)
  OBVIOUS
<1>2. u = RefreshPeer(mid, id, w)
  BY <1>1 DEF AbsorbSecret
<1>3. Registry(mid) /\ mid.rows = r.rows /\ mid.codes = r.codes /\ Shares(r, peer, s, mid)
  BY <1>1, SetSecretEffect
<1>4. Meets(mid, id, w, u) /\ u.secret = mid.secret /\ u.codes = mid.codes
  BY <1>2, <1>3, RefreshPeerMeets
<1>5. Meets(r, id, w, u)
  BY <1>3, <1>4 DEF Meets, Known
<1>6. Shares(r, peer, s, u)
  BY <1>3, <1>4 DEF Shares
<1> QED
  BY <1>3, <1>4, <1>5, <1>6

-----------------------------------------------------------------------------
(* The history                                                             *)

\* What is remembered of a machine's registry is of the rows that are there.
Recalls(sp, m, r, sp2) ==
    /\ sp2 \in History
    /\ \A p \in Machine \ {m} : sp2[p] = sp[p]
    /\ \A id \in AllIds : sp2[m][id] = IF id \in DOMAIN r.rows THEN sp[m][id] ELSE Silence[id]

\* So Remember does.
LEMMA Remembers ==
  ASSUME NEW sp \in History, NEW m \in Machine, NEW r,
         NEW sp2, sp2 = Remember(sp, m, r)
  PROVE  Recalls(sp, m, r, sp2)
<1>1. PICK own : own = [id \in AllIds |-> IF id \in DOMAIN r.rows THEN sp[m][id] ELSE Silence[id]]
  OBVIOUS
<1>2. sp2 = [sp EXCEPT ![m] = own]
  BY <1>1 DEF Remember
<1>3. \A id \in AllIds : Silence[id] \in Saying
  BY DEF Silence, Saying
<1>4. own \in [AllIds -> Saying]
  <2>1. sp[m] \in [AllIds -> Saying]
    BY DEF History
  <2>2. \A id \in AllIds : sp[m][id] \in Saying
    BY <2>1
  <2> QED
    BY <1>1, <1>3, <2>2
<1> QED
  BY <1>1, <1>2, <1>4 DEF Recalls, History

\* After a handshake the time counts at which it was sent.
Heeds(sp, m, r, id, w, sp2) ==
    /\ sp2 \in History
    /\ \A p \in Machine \ {m} : sp2[p] = sp[p]
    /\ \A x \in AllIds \ {id} :
          sp2[m][x] = IF x \in DOMAIN r.rows THEN sp[m][x] ELSE Silence[x]
    /\ sp2[m][id].mdnsAt = sp[m][id].mdnsAt /\ sp2[m][id].heardAt = w.seen

\* So Met does.
LEMMA Meetings ==
  ASSUME NEW sp \in History, NEW m \in Machine, NEW r, NEW id \in AllIds,
         Known(r, id), NEW w, w.seen \in Nat, NEW sp2, sp2 = Met(sp, m, r, id, w)
  PROVE  Heeds(sp, m, r, id, w, sp2)
<1>1. PICK rem : rem = Remember(sp, m, r)
  OBVIOUS
<1>2. sp2 = [rem EXCEPT ![m][id].heardAt = w.seen]
  BY <1>1 DEF Met
<1>3. /\ rem \in History
      /\ \A p \in Machine \ {m} : rem[p] = sp[p]
      /\ \A x \in AllIds : rem[m][x] = IF x \in DOMAIN r.rows THEN sp[m][x] ELSE Silence[x]
  <2>1. Recalls(sp, m, r, rem)
    BY <1>1, Remembers
  <2> QED
    BY <2>1 DEF Recalls
<1>4. PICK said : said = [rem[m][id] EXCEPT !.heardAt = w.seen]
  OBVIOUS
<1>5. said \in Saying /\ said.mdnsAt = rem[m][id].mdnsAt /\ said.heardAt = w.seen
  <2>1. rem[m][id] \in Saying
    BY <1>3 DEF History
  <2> QED
    BY <1>4, <2>1 DEF Saying
<1>6. PICK own : own = [rem[m] EXCEPT ![id] = said]
  OBVIOUS
<1>7. sp2 = [rem EXCEPT ![m] = own]
  BY <1>2, <1>4, <1>6
<1>8. /\ own \in [AllIds -> Saying] /\ own[id] = said
      /\ \A x \in AllIds \ {id} : own[x] = rem[m][x]
  BY <1>3, <1>5, <1>6 DEF History
<1>9. sp2[m] = own /\ \A p \in Machine \ {m} : sp2[p] = rem[p]
  BY <1>3, <1>7 DEF History
<1>10. sp2 \in History
  BY <1>3, <1>7, <1>8 DEF History
<1>11. rem[m][id] = sp[m][id]
  BY <1>3 DEF Known
<1> QED
  BY <1>3, <1>5, <1>8, <1>9, <1>10, <1>11 DEF Heeds

-----------------------------------------------------------------------------
(* The steps.  What a step does to the pairings and to who is online is      *)
(* proved with what it does to the invariant.                                *)

StepSticks == \A m \in Machine : Sticks(reg[m], reg'[m])
StepOnline == \A m \in Machine : StaysOnline(reg[m], reg'[m], clock)

\* Codes may go; none comes.
LEMMA SameCodes ==
  ASSUME CodesOK, UNCHANGED joins,
         \A m \in Machine : DOMAIN reg'[m].codes \subseteq DOMAIN reg[m].codes
  PROVE  CodesOK'
<1>1. ASSUME NEW m \in Machine, NEW p \in Machine, m # p
      PROVE  DOMAIN reg'[m].codes \cap DOMAIN reg'[p].codes = {}
  BY <1>1 DEF CodesOK
<1>2. ASSUME NEW j \in joins, NEW m \in Machine
      PROVE  j.code \notin DOMAIN reg'[m].codes
  BY <1>2 DEF CodesOK
<1> QED
  BY <1>1, <1>2 DEF CodesOK

\* Two machines still agree when no message about them comes or goes and their
\* secrets for each other stay, or one goes.
LEMMA AgreedStays ==
  ASSUME NEW m \in Machine, NEW p \in Machine, Agreed(m, p), UNCHANGED install,
         Telling(m, p)' = Telling(m, p), Telling(p, m)' = Telling(p, m),
         Id(m) \in DOMAIN reg'[p].secret =>
             Id(m) \in DOMAIN reg[p].secret /\ reg'[p].secret[Id(m)] = reg[p].secret[Id(m)],
         Id(p) \in DOMAIN reg'[m].secret =>
             Id(p) \in DOMAIN reg[m].secret /\ reg'[m].secret[Id(p)] = reg[m].secret[Id(p)]
  PROVE  Agreed(m, p)'
<1>1. Id(m)' = Id(m) /\ Id(p)' = Id(p)
  BY DEF Id
<1> QED
  BY <1>1 DEF Agreed

\* A step of the registries alone, of which no secret is new.
LEMMA LocalStep ==
  ASSUME PairingInv, UNCHANGED <<clock, install, call, net>>, torn \subseteq torn',
         DOMAIN reg' = Machine, DOMAIN inbound' = Machine,
         \A m \in Machine : DOMAIN inbound'[m] \subseteq AllIds,
         spoken' \in History,
         \A m \in Machine : RowsGood(m, reg'[m], spoken'[m], clock),
         \A m \in Machine :
            /\ DOMAIN reg'[m].secret \subseteq DOMAIN reg[m].secret
            /\ \A id \in DOMAIN reg'[m].secret : reg'[m].secret[id] = reg[m].secret[id],
         CodesOK'
  PROVE  PairingInv'
<1>1. TypesOK'
  BY DEF PairingInv, TypesOK, Id, History
<1>2. MessagesOK'
  BY DEF PairingInv, MessagesOK, Id
<1>3. WaitingOK'
  BY DEF PairingInv, WaitingOK, CallsOK, AwaitedOK, AnswersOK, Outstanding, Issued
<1>4. RowsOK'
  BY DEF RowsOK, RowsGood, RowGood, Issued, Current, Id
<1>5. SecretsOK'
  <2>1. ASSUME NEW m \in Machine, NEW id \in DOMAIN reg'[m].secret
        PROVE  Issued(id)'
    BY <2>1 DEF PairingInv, SecretsOK, Issued
  <2>2. ASSUME NEW m \in Machine, NEW p \in Machine, m # p, {m, p} \notin torn'
        PROVE  Agreed(m, p)'
    <3>1. {m, p} \notin torn
      BY <2>2
    <3>2. Agreed(m, p)
      BY <2>2, <3>1 DEF PairingInv, SecretsOK
    <3>3. Telling(m, p)' = Telling(m, p) /\ Telling(p, m)' = Telling(p, m)
      BY DEF Telling
    <3> QED
      BY <3>2, <3>3, AgreedStays
  <2> QED
    BY <2>1, <2>2 DEF SecretsOK
<1> QED
  BY <1>1, <1>2, <1>3, <1>4, <1>5 DEF PairingInv

\* The user's operations that only thin out a registry.
LEMMA OperationThins ==
  ASSUME PairingInv, NEW m \in Machine, NEW r, Operation(m, r), Thins(reg[m], r),
         torn \subseteq torn', DOMAIN inbound' = Machine,
         \A p \in Machine : DOMAIN inbound'[p] \subseteq AllIds
  PROVE  PairingInv'
<1>1. /\ UNCHANGED <<clock, install, call, net>> /\ UNCHANGED joins
      /\ reg' = [reg EXCEPT ![m] = r] /\ spoken' = Remember(spoken, m, r)
  BY DEF Operation
<1>2. DOMAIN reg' = Machine /\ reg'[m] = r /\ \A p \in Machine \ {m} : reg'[p] = reg[p]
  BY <1>1 DEF PairingInv, TypesOK
<1>3. Recalls(spoken, m, r, spoken')
  BY <1>1, Remembers DEF PairingInv, TypesOK
<1>4. ASSUME NEW p \in Machine
      PROVE  RowsGood(p, reg'[p], spoken'[p], clock)
  <2>1. RowsGood(p, reg[p], spoken[p], clock)
    BY DEF PairingInv, RowsOK
  <2>2. CASE p # m
    BY <1>2, <1>3, <2>1, <2>2 DEF Recalls
  <2>3. CASE p = m
    <3>1. \A id \in AllIds :
            spoken'[m][id] = IF id \in DOMAIN r.rows THEN spoken[m][id] ELSE Silence[id]
      BY <1>3 DEF Recalls
    <3>2. RowsGood(m, r, spoken'[m], clock)
      BY <2>1, <2>3, <3>1, ThinsGood
    <3> QED
      BY <1>2, <2>3, <3>2
  <2> QED
    BY <2>2, <2>3
<1>5. \A p \in Machine :
         /\ DOMAIN reg'[p].secret \subseteq DOMAIN reg[p].secret
         /\ \A id \in DOMAIN reg'[p].secret : reg'[p].secret[id] = reg[p].secret[id]
  BY <1>2 DEF Thins
<1>6. CodesOK'
  <2>1. \A p \in Machine : DOMAIN reg'[p].codes \subseteq DOMAIN reg[p].codes
    BY <1>2 DEF Thins
  <2> QED
    BY <1>1, <2>1, SameCodes DEF PairingInv
<1>7. spoken' \in History
  BY <1>3 DEF Recalls
<1> QED
  BY <1>1, <1>2, <1>4, <1>5, <1>6, <1>7, LocalStep

\* Where one registry changes, the others lose nobody.
LEMMA OneRegistry ==
  ASSUME TypesOK, NEW m \in Machine, NEW r, reg' = [reg EXCEPT ![m] = r]
  PROVE  /\ DOMAIN reg' = Machine /\ reg'[m] = r /\ \A p \in Machine \ {m} : reg'[p] = reg[p]
         /\ StaysOnline(reg[m], r, clock) => StepOnline
         /\ StaysLit(reg[m], r) => StepOnline
         /\ Sticks(reg[m], r) => StepSticks
<1>1. DOMAIN reg' = Machine /\ reg'[m] = r /\ \A p \in Machine \ {m} : reg'[p] = reg[p]
  BY DEF TypesOK
<1>2. \A p \in Machine : Sticks(reg[p], reg[p]) /\ StaysOnline(reg[p], reg[p], clock)
  BY DEF Sticks, StaysOnline
<1>3. StaysLit(reg[m], r) => StaysOnline(reg[m], r, clock)
  BY DEF StaysLit, StaysOnline
<1> QED
  BY <1>1, <1>2, <1>3 DEF StepOnline, StepSticks

\* The registry of a machine is one, and the history of it knows when.
LEMMA Types ==
  ASSUME PairingInv
  PROVE  /\ TypesOK /\ clock \in Nat /\ spoken \in History
         /\ \A m \in Machine : Registry(reg[m]) /\ RowsGood(m, reg[m], spoken[m], clock)
         /\ \A m \in Machine, id \in AllIds : spoken[m][id] \in Saying
  BY PairingAssumption DEF PairingInv, TypesOK, RowsOK, RowsGood, History

\* An alias says nothing of who the device is.
LEMMA SetAliasStep ==
  ASSUME PairingInv, NEW m \in Machine, SetAlias(m)
  PROVE  PairingInv' /\ StepOnline
<1>1. PICK id \in DOMAIN reg[m].rows :
          Operation(m, UpdateAlias(reg[m], id, "alias")) /\ UNCHANGED <<inbound, torn>>
  BY DEF SetAlias
<1>2. PICK r : r = UpdateAlias(reg[m], id, "alias")
  OBVIOUS
<1>3. Thins(reg[m], r) /\ StaysOnline(reg[m], r, clock)
  BY <1>2, Types, UpdateAliasThins
<1>4. Operation(m, r)
  BY <1>1, <1>2
<1>5. PairingInv'
  BY <1>1, <1>3, <1>4, Types, OperationThins DEF TypesOK
<1>6. StepOnline
  BY <1>3, <1>4, Types, OneRegistry DEF Operation
<1> QED
  BY <1>5, <1>6

\* Deleting a device takes its row and its secret.
LEMMA RemoveStep ==
  ASSUME PairingInv, NEW m \in Machine, Remove(m)
  PROVE  PairingInv' /\ StepOnline
<1>1. PICK id \in DOMAIN reg[m].rows :
          Operation(m, DeleteDevice(reg[m], id)) /\ Tears(m) /\ UNCHANGED inbound
  BY DEF Remove
<1>2. PICK r : r = DeleteDevice(reg[m], id)
  OBVIOUS
<1>3. Removes(reg[m], r)
  BY <1>2, Types, RemovalsRemove
<1>4. Thins(reg[m], r) /\ StaysOnline(reg[m], r, clock)
  BY <1>3, Types, RemovalsThin
<1>5. Operation(m, r)
  BY <1>1, <1>2
<1>6. torn \subseteq torn'
  BY <1>1 DEF Tears
<1>7. PairingInv'
  BY <1>1, <1>4, <1>5, <1>6, Types, OperationThins DEF TypesOK
<1>8. StepOnline
  BY <1>4, <1>5, Types, OneRegistry DEF Operation
<1> QED
  BY <1>7, <1>8

\* Deleting all devices takes the secrets too.
LEMMA ClearAllStep ==
  ASSUME PairingInv, NEW m \in Machine, ClearAll(m)
  PROVE  PairingInv' /\ StepOnline
<1>1. PICK r : r = DeleteAllDevices(reg[m])
  OBVIOUS
<1>2. Operation(m, r) /\ Tears(m) /\ inbound' = [inbound EXCEPT ![m] = <<>>]
  BY <1>1 DEF ClearAll
<1>3. Removes(reg[m], r)
  BY <1>1, Types, RemovalsRemove
<1>4. Thins(reg[m], r) /\ StaysOnline(reg[m], r, clock)
  BY <1>3, Types, RemovalsThin
<1>5. torn \subseteq torn'
  BY <1>2 DEF Tears
<1>6. PICK none : none = <<>>
  OBVIOUS
<1>7. DOMAIN none = {}
  BY <1>6
<1>8. DOMAIN inbound' = Machine /\ \A p \in Machine : DOMAIN inbound'[p] \subseteq AllIds
  BY <1>2, <1>6, <1>7, Types DEF TypesOK
<1>9. PairingInv'
  BY <1>2, <1>4, <1>5, <1>8, OperationThins
<1>10. StepOnline
  BY <1>2, <1>4, Types, OneRegistry DEF Operation
<1> QED
  BY <1>9, <1>10

\* The purge of the stale and the silent.
LEMMA PurgeStep ==
  ASSUME PairingInv, NEW m \in Machine, Purge(m)
  PROVE  PairingInv' /\ StepOnline
<1>1. PICK mid \in Purgings(reg[m], clock) : Operation(m, PurgeStalePaired(mid, clock))
  BY DEF Purge
<1>2. PICK r : r = PurgeStalePaired(mid, clock)
  OBVIOUS
<1>3. Removes(reg[m], mid)
  BY Types, RemovalsRemove
<1>4. Registry(mid)
  BY <1>3 DEF Removes
<1>5. Removes(mid, r)
  BY <1>2, <1>4, RemovalsRemove
<1>6. Removes(reg[m], r)
  BY <1>3, <1>5 DEF Removes
<1>7. Thins(reg[m], r) /\ StaysOnline(reg[m], r, clock)
  BY <1>6, Types, RemovalsThin
<1>8. Operation(m, r) /\ UNCHANGED inbound
  BY <1>1, <1>2 DEF Purge
<1>9. torn \subseteq torn'
  BY DEF Purge, Tears
<1>10. PairingInv'
  BY <1>7, <1>8, <1>9, Types, OperationThins DEF TypesOK
<1>11. StepOnline
  BY <1>7, <1>8, Types, OneRegistry DEF Operation
<1> QED
  BY <1>10, <1>11

\* Merging: the row that stays takes over what the other one had.
LEMMA MergeStep ==
  ASSUME PairingInv, NEW m \in Machine, Merge(m)
  PROVE  PairingInv' /\ StepOnline
<1>1. PICK from \in DOMAIN reg[m].rows, to \in DOMAIN reg[m].rows :
          /\ Mergeable(reg[m], from, to)
          /\ Operation(m, MergeDevice(reg[m], from, to))
          /\ Tears(m) /\ UNCHANGED inbound
  BY DEF Merge
<1>2. PICK r : r = MergeDevice(reg[m], from, to)
  OBVIOUS
<1>3. Thins(reg[m], r) /\ StaysOnline(reg[m], r, clock)
  BY <1>1, <1>2, Types, MergeDeviceThins
<1>4. Operation(m, r)
  BY <1>1, <1>2
<1>5. torn \subseteq torn'
  BY <1>1 DEF Tears
<1>6. PairingInv'
  BY <1>1, <1>3, <1>4, <1>5, Types, OperationThins DEF TypesOK
<1>7. StepOnline
  BY <1>3, <1>4, Types, OneRegistry DEF Operation
<1> QED
  BY <1>6, <1>7

\* What a machine says of itself.
LEMMA MeDevice ==
  ASSUME PairingInv, NEW m \in Machine
  PROVE  /\ Me(m) \in Device /\ Me(m).addr = m /\ Me(m).seen = clock
         /\ ~Me(m).paired
  BY Types DEF Me, Device

\* The history of rows that are not there is silent already.
LEMMA StillSilent ==
  ASSUME NEW m, NEW r, NEW sp, NEW now, RowsGood(m, r, sp, now)
  PROVE  \A x \in AllIds : x \notin DOMAIN r.rows => sp[x] = Silence[x]
  BY DEF RowsGood, RowGood, Known, Silence

\* A code that was drawn is nobody else's, and was never used.
LEMMA CreateCodeStep ==
  ASSUME PairingInv, NEW m \in Machine, CreateCode(m)
  PROVE  PairingInv' /\ StepOnline
<1>1. PICK c \in Code :
          /\ \A o \in Machine : c \notin DOMAIN reg[o].codes
          /\ \A j \in joins : j.code # c
          /\ Operation(m, StoreCode(reg[m], c, clock, Validity))
          /\ UNCHANGED <<inbound, torn>>
  BY DEF CreateCode
<1>2. PICK r : r = StoreCode(reg[m], c, clock, Validity)
  OBVIOUS
<1>3. /\ UNCHANGED <<clock, install, call, net>> /\ UNCHANGED joins
      /\ reg' = [reg EXCEPT ![m] = r] /\ spoken' = Remember(spoken, m, r)
  BY <1>1, <1>2 DEF Operation
<1>4. /\ Registry(r) /\ r.rows = reg[m].rows /\ r.secret = reg[m].secret
      /\ DOMAIN r.codes \subseteq DOMAIN reg[m].codes \cup {c}
  BY <1>2, Types, StoreCodeEffect
<1>5. DOMAIN reg' = Machine /\ reg'[m] = r /\ \A p \in Machine \ {m} : reg'[p] = reg[p]
  BY <1>3, Types, OneRegistry
<1>6. Recalls(spoken, m, r, spoken')
  BY <1>3, Types, Remembers
<1>7. ASSUME NEW p \in Machine
      PROVE  RowsGood(p, reg'[p], spoken'[p], clock)
  <2>1. RowsGood(p, reg[p], spoken[p], clock)
    BY Types
  <2>2. CASE p # m
    BY <1>5, <1>6, <2>1, <2>2 DEF Recalls
  <2>3. CASE p = m
    <3>1. \A x \in AllIds : spoken'[m][x] = spoken[m][x]
      <4>1. \A x \in AllIds : x \notin DOMAIN reg[m].rows => spoken[m][x] = Silence[x]
        BY <2>1, <2>3, StillSilent
      <4> QED
        BY <1>4, <1>6, <4>1 DEF Recalls
    <3>2. RowsGood(m, r, spoken'[m], clock)
      BY <1>4, <2>1, <2>3, <3>1 DEF RowsGood, RowGood, Known
    <3> QED
      BY <1>5, <2>3, <3>2
  <2> QED
    BY <2>2, <2>3
<1>8. CodesOK'
  <2>1. ASSUME NEW o \in Machine, NEW p \in Machine, o # p
        PROVE  DOMAIN reg'[o].codes \cap DOMAIN reg'[p].codes = {}
    <3>1. DOMAIN reg[o].codes \cap DOMAIN reg[p].codes = {}
      BY <2>1 DEF PairingInv, CodesOK
    <3> QED
      BY <1>1, <1>4, <1>5, <2>1, <3>1
  <2>2. ASSUME NEW j \in joins, NEW p \in Machine
        PROVE  j.code \notin DOMAIN reg'[p].codes
    <3>1. j.code \notin DOMAIN reg[p].codes
      BY DEF PairingInv, CodesOK
    <3> QED
      BY <1>1, <1>4, <1>5, <3>1
  <2> QED
    BY <1>3, <2>1, <2>2 DEF PairingInv, CodesOK
<1>9. PairingInv'
  <2>1. \A p \in Machine :
           /\ DOMAIN reg'[p].secret \subseteq DOMAIN reg[p].secret
           /\ \A id \in DOMAIN reg'[p].secret : reg'[p].secret[id] = reg[p].secret[id]
    BY <1>4, <1>5
  <2>2. spoken' \in History
    BY <1>6 DEF Recalls
  <2>3. DOMAIN inbound' = Machine /\ \A p \in Machine : DOMAIN inbound'[p] \subseteq AllIds
    BY <1>1, Types DEF TypesOK
  <2> QED
    BY <1>1, <1>3, <1>5, <1>7, <1>8, <2>1, <2>2, <2>3, LocalStep
<1>10. StepOnline
  BY <1>3, <1>4, Types, OneRegistry, WritesStick
<1> QED
  BY <1>9, <1>10

\* A device entered by hand is another machine, under the id it has.
LEMMA AddDeviceStep ==
  ASSUME PairingInv, NEW m \in Machine, AddDevice(m)
  PROVE  PairingInv' /\ StepOnline
<1>1. PICK p \in Machine \ {m} :
          /\ Operation(m, UpsertDevice(reg[m], Id(p),
                 [Me(p) EXCEPT !.isSelf = FALSE, !.uid = None, !.paired = TRUE]))
          /\ UNCHANGED <<inbound, torn>>
  BY DEF AddDevice
<1>2. PICK id, w1 : id = Id(p) /\ w1 = [Me(p) EXCEPT !.isSelf = FALSE]
  OBVIOUS
<1>3. PICK w2 : w2 = [w1 EXCEPT !.uid = None]
  OBVIOUS
<1>4. PICK w : w = [w2 EXCEPT !.paired = TRUE]
  OBVIOUS
<1>5. w \in Device /\ w.addr = p /\ w.seen = clock /\ ~w.isSelf /\ w.paired
  <2>1. w1 \in Device /\ w1.addr = p /\ w1.seen = clock /\ ~w1.isSelf
    <3>1. Me(p) \in Device /\ Me(p).addr = p /\ Me(p).seen = clock
      BY MeDevice
    <3> QED
      BY <1>2, <3>1 DEF Device
  <2>2. w2 \in Device /\ w2.addr = p /\ w2.seen = clock /\ ~w2.isSelf
    BY <1>3, <2>1 DEF Device
  <2> QED
    BY <1>4, <2>2 DEF Device
<1>6. PICK r : r = UpsertDevice(reg[m], id, w)
  OBVIOUS
<1>7. Operation(m, r)
  BY <1>1, <1>2, <1>3, <1>4, <1>6
<1>8. /\ UNCHANGED <<clock, install, call, net>> /\ UNCHANGED joins
      /\ reg' = [reg EXCEPT ![m] = r] /\ spoken' = Remember(spoken, m, r)
  BY <1>7 DEF Operation
<1>9. id \in AllIds /\ Owner(id) = p /\ Issued(id) /\ p # m
  BY <1>1, <1>2, Types, RunningIds
<1>10. Meets(reg[m], id, w, r) /\ r.secret = reg[m].secret /\ r.codes = reg[m].codes
  BY <1>5, <1>6, <1>9, Types, UpsertMeets
<1>11. DOMAIN reg' = Machine /\ reg'[m] = r /\ \A o \in Machine \ {m} : reg'[o] = reg[o]
  BY <1>8, Types, OneRegistry
<1>12. Recalls(spoken, m, r, spoken')
  BY <1>8, Types, Remembers
<1>13. ASSUME NEW o \in Machine
       PROVE  RowsGood(o, reg'[o], spoken'[o], clock)
  <2>1. RowsGood(o, reg[o], spoken[o], clock)
    BY Types
  <2>2. CASE o # m
    BY <1>11, <1>12, <2>1, <2>2 DEF Recalls
  <2>3. CASE o = m
    <3>1. DOMAIN reg[m].rows \subseteq DOMAIN r.rows
      BY <1>10 DEF Meets
    <3>2. \A x \in AllIds : spoken'[m][x] = spoken[m][x]
      <4>1. \A x \in AllIds : x \notin DOMAIN reg[m].rows => spoken[m][x] = Silence[x]
        BY <2>1, <2>3, StillSilent
      <4> QED
        BY <1>12, <3>1, <4>1 DEF Recalls
    <3>3. spoken[m][id].heardAt # None => spoken[m][id].heardAt <= clock
      BY <1>9, <2>1, <2>3 DEF RowsGood, RowGood, Attested
    <3>4. clock \in Nat
      BY Types
    <3>5. RowsGood(m, r, spoken'[m], clock)
      BY <1>5, <1>9, <1>10, <2>1, <2>3, <3>2, <3>3, <3>4, MeetsGood
    <3> QED
      BY <1>11, <2>3, <3>5
  <2> QED
    BY <2>2, <2>3
<1>14. PairingInv'
  <2>1. \A o \in Machine :
           /\ DOMAIN reg'[o].secret \subseteq DOMAIN reg[o].secret
           /\ \A x \in DOMAIN reg'[o].secret : reg'[o].secret[x] = reg[o].secret[x]
    BY <1>10, <1>11
  <2>2. spoken' \in History
    BY <1>12 DEF Recalls
  <2>3. DOMAIN inbound' = Machine /\ \A o \in Machine : DOMAIN inbound'[o] \subseteq AllIds
    BY <1>1, Types DEF TypesOK
  <2>4. CodesOK'
    BY <1>8, <1>10, <1>11, SameCodes DEF PairingInv
  <2> QED
    BY <1>1, <1>8, <1>11, <1>13, <2>1, <2>2, <2>3, <2>4, LocalStep
<1>15. StepOnline
  BY <1>8, <1>10, Types, OneRegistry, WritesStick
<1> QED
  BY <1>14, <1>15

\* A synchronisation enters the machine at its peer, at most.
LEMMA SyncStep ==
  ASSUME PairingInv, NEW m \in Machine, NEW id \in Listed(reg[m]), SyncTo(m, id)
  PROVE  PairingInv' /\ StepOnline /\ StepSticks
<1>1. PICK p \in Machine \ {m} : \E pushed \in BOOLEAN :
          reg' = [reg EXCEPT
              ![m] = MarkSynced(@, id, clock),
              ![p] = IF pushed /\ ~Known(@, Id(m))
                     THEN UpsertDevice(@, Id(m), Me(m)) ELSE @]
  BY DEF SyncTo, OpenBody
<1>2. UNCHANGED <<clock, install, inbound, call, net, joins, torn, spoken>>
  BY DEF SyncTo
<1>a. PICK pushed \in BOOLEAN :
          reg' = [reg EXCEPT
              ![m] = MarkSynced(@, id, clock),
              ![p] = IF pushed /\ ~Known(@, Id(m))
                     THEN UpsertDevice(@, Id(m), Me(m)) ELSE @]
  BY <1>1
<1>3. PICK r, u : /\ r = MarkSynced(reg[m], id, clock)
                  /\ u = IF pushed /\ ~Known(reg[p], Id(m))
                         THEN UpsertDevice(reg[p], Id(m), Me(m)) ELSE reg[p]
  OBVIOUS
<1>4. PICK mid : mid = [reg EXCEPT ![m] = r]
  OBVIOUS
<1>5. DOMAIN mid = Machine /\ mid[m] = r /\ \A o \in Machine \ {m} : mid[o] = reg[o]
  BY <1>4, Types DEF TypesOK
<1>6. reg' = [mid EXCEPT ![p] = u]
  BY <1>a, <1>3, <1>4, <1>5
<1>7. /\ DOMAIN reg' = Machine /\ reg'[m] = r /\ reg'[p] = u
      /\ \A o \in Machine \ {m, p} : reg'[o] = reg[o]
  BY <1>5, <1>6
<1>8. /\ Thins(reg[m], r) /\ Sticks(reg[m], r) /\ StaysOnline(reg[m], r, clock)
      /\ DOMAIN r.rows = DOMAIN reg[m].rows
  BY <1>3, Types, MarkSyncedThins
<1>9. RowsGood(m, r, spoken[m], clock)
  <2>1. RowsGood(m, reg[m], spoken[m], clock)
    BY Types
  <2>2. \A x \in AllIds : x \notin DOMAIN reg[m].rows => spoken[m][x] = Silence[x]
    BY <2>1, StillSilent
  <2>3. \A x \in AllIds : spoken[m][x] = IF x \in DOMAIN r.rows THEN spoken[m][x] ELSE Silence[x]
    BY <1>8, <2>2
  <2> QED
    BY <1>8, <2>1, <2>3, ThinsGood
<1>10. /\ RowsGood(p, u, spoken[p], clock)
       /\ Sticks(reg[p], u) /\ StaysLit(reg[p], u)
       /\ u.secret = reg[p].secret /\ u.codes = reg[p].codes
  <2>1. RowsGood(p, reg[p], spoken[p], clock)
    BY Types
  <2>2. CASE pushed /\ ~Known(reg[p], Id(m))
    <3>1. u = UpsertDevice(reg[p], Id(m), Me(m))
      BY <1>3, <2>2
    <3>2. Me(m) \in Device /\ Me(m).addr = m /\ ~Me(m).paired
      BY MeDevice
    <3>3. Id(m) \in AllIds /\ Owner(Id(m)) = m /\ Issued(Id(m)) /\ p # m
      BY Types, RunningIds
    <3>4. RowsGood(p, u, spoken[p], clock)
      BY <2>1, <2>2, <3>1, <3>2, <3>3, PushGood
    <3>5. Upserts(reg[p], Id(m), Me(m), u)
      BY <3>1, <3>2, <3>3, Types, UpsertEffect
    <3>6. Sticks(reg[p], u) /\ StaysLit(reg[p], u)
      BY <2>2, <3>5, WritesStick
    <3> QED
      BY <3>4, <3>5, <3>6 DEF Upserts
  <2>3. CASE ~(pushed /\ ~Known(reg[p], Id(m)))
    <3>1. u = reg[p]
      BY <1>3, <2>3
    <3> QED
      BY <2>1, <3>1 DEF Sticks, StaysLit
  <2> QED
    BY <2>2, <2>3
<1>11. ASSUME NEW o \in Machine
       PROVE  RowsGood(o, reg'[o], spoken'[o], clock)
  BY <1>2, <1>7, <1>9, <1>10, Types
<1>12. PairingInv'
  <2>1. \A o \in Machine :
           /\ DOMAIN reg'[o].secret \subseteq DOMAIN reg[o].secret
           /\ \A x \in DOMAIN reg'[o].secret : reg'[o].secret[x] = reg[o].secret[x]
    BY <1>7, <1>8, <1>10 DEF Thins
  <2>2. \A o \in Machine : DOMAIN reg'[o].codes \subseteq DOMAIN reg[o].codes
    BY <1>7, <1>8, <1>10 DEF Thins
  <2>3. CodesOK'
    BY <1>2, <2>2, SameCodes DEF PairingInv
  <2>4. DOMAIN inbound' = Machine /\ \A o \in Machine : DOMAIN inbound'[o] \subseteq AllIds
    BY <1>2, Types DEF TypesOK
  <2> QED
    BY <1>2, <1>7, <1>11, <2>1, <2>3, <2>4, Types, LocalStep
<1>13. StepSticks
  <2>1. \A o \in Machine : Sticks(reg[o], reg[o])
    BY DEF Sticks
  <2> QED
    BY <1>7, <1>8, <1>10, <2>1 DEF StepSticks
<1>14. StepOnline
  <2>1. \A o \in Machine : StaysOnline(reg[o], reg[o], clock)
    BY DEF StaysOnline
  <2>2. StaysOnline(reg[p], u, clock)
    BY <1>10 DEF StaysLit, StaysOnline
  <2> QED
    BY <1>7, <1>8, <2>1, <2>2 DEF StepOnline
<1> QED
  BY <1>12, <1>13, <1>14

\* An announcement: one row, and the history of it.
LEMMA AnnounceStep ==
  ASSUME PairingInv, NEW m \in Machine, NEW p \in Machine, NEW via \in {"mdns", "udp"},
         NEW addr \in {p, "nobody"}, Announce(m, p, via, addr)
  PROVE  /\ PairingInv' /\ StepOnline /\ StepSticks
         /\ Records(reg[m], Id(p), addr, via, clock, reg'[m])
<1>1. PICK id, r, said :
          /\ id = Id(p) /\ r = RecordPeer(reg[m], id, addr, via, clock)
          /\ said = [mdnsAt |-> IF via = "mdns" THEN clock ELSE spoken[m][id].mdnsAt,
                     heardAt |-> clock]
  OBVIOUS
<1>2. /\ m # p
      /\ reg' = [reg EXCEPT ![m] = r] /\ spoken' = [spoken EXCEPT ![m][id] = said]
      /\ UNCHANGED <<clock, install, inbound, call, net, joins, torn>>
  BY <1>1 DEF Announce
<1>3. id \in AllIds /\ Owner(id) = p /\ Issued(id)
  BY <1>1, Types, RunningIds
<1>4. Records(reg[m], id, addr, via, clock, r)
  <2>1. addr \in Machine \cup {"nobody"} /\ clock \in Nat /\ Registry(reg[m])
    BY Types
  <2> QED
    BY <1>1, <1>3, <2>1, RecordPeerEffect
<1>5. DOMAIN reg' = Machine /\ reg'[m] = r /\ \A o \in Machine \ {m} : reg'[o] = reg[o]
  BY <1>2, Types, OneRegistry
<1>6. /\ spoken' \in History
      /\ \A o \in Machine \ {m} : spoken'[o] = spoken[o]
      /\ \A x \in AllIds \ {id} : spoken'[m][x] = spoken[m][x]
      /\ spoken'[m][id] = said
  <2>1. PICK own : own = [spoken[m] EXCEPT ![id] = said]
    OBVIOUS
  <2>2. spoken' = [spoken EXCEPT ![m] = own]
    BY <1>2, <2>1
  <2>3. said \in Saying
    <3>1. spoken[m][id].mdnsAt \in Nat \cup {None}
      BY <1>3, Types DEF Saying
    <3> QED
      BY <1>1, <3>1, Types DEF Saying
  <2>4. spoken[m] \in [AllIds -> Saying]
    BY Types DEF History
  <2>5. /\ own \in [AllIds -> Saying] /\ own[id] = said
        /\ \A x \in AllIds \ {id} : own[x] = spoken[m][x]
    BY <1>3, <2>1, <2>3, <2>4
  <2>6. spoken \in [Machine -> [AllIds -> Saying]]
    BY Types DEF History
  <2> QED
    BY <2>2, <2>5, <2>6 DEF History
<1>7. ASSUME NEW o \in Machine
      PROVE  RowsGood(o, reg'[o], spoken'[o], clock)
  <2>1. RowsGood(o, reg[o], spoken[o], clock)
    BY Types
  <2>2. CASE o # m
    BY <1>5, <1>6, <2>1, <2>2
  <2>3. CASE o = m
    <3>1. HearsOf(spoken[m], id, via, clock, spoken'[m])
      BY <1>1, <1>6 DEF HearsOf
    <3>2. clock \in Nat /\ spoken[m][id] \in Saying /\ addr \in {Owner(id), "nobody"}
      BY <1>3, Types
    <3>3. RowsGood(m, r, spoken'[m], clock)
      BY <1>2, <1>3, <1>4, <2>1, <2>3, <3>1, <3>2, RecordsGood
    <3> QED
      BY <1>5, <2>3, <3>3
  <2> QED
    BY <2>2, <2>3
<1>8. PairingInv'
  <2>1. r.secret = reg[m].secret /\ r.codes = reg[m].codes
    BY <1>4 DEF Records
  <2>2. \A o \in Machine :
           /\ DOMAIN reg'[o].secret \subseteq DOMAIN reg[o].secret
           /\ \A x \in DOMAIN reg'[o].secret : reg'[o].secret[x] = reg[o].secret[x]
    BY <1>5, <2>1
  <2>3. \A o \in Machine : DOMAIN reg'[o].codes \subseteq DOMAIN reg[o].codes
    BY <1>5, <2>1
  <2>4. CodesOK'
    BY <1>2, <2>3, SameCodes DEF PairingInv
  <2>5. DOMAIN inbound' = Machine /\ \A o \in Machine : DOMAIN inbound'[o] \subseteq AllIds
    BY <1>2, Types DEF TypesOK
  <2> QED
    BY <1>2, <1>5, <1>6, <1>7, <2>2, <2>4, <2>5, LocalStep
<1>9. StepOnline /\ StepSticks
  <2>1. Sticks(reg[m], r) /\ StaysLit(reg[m], r)
    BY <1>4, WritesStick
  <2> QED
    BY <1>2, <2>1, Types, OneRegistry
<1> QED
  BY <1>1, <1>4, <1>5, <1>8, <1>9

\* A probe: discovered devices are purged, and one device is marked.
LEMMA ProbeStep ==
  ASSUME PairingInv, NEW m \in Machine, Probe(m)
  PROVE  PairingInv' /\ StepOnline /\ StepSticks
<1>0. PICK mid \in Purgings(reg[m], clock) : \E id \in Listed(mid), online \in BOOLEAN :
          /\ reg' = [reg EXCEPT ![m] = TouchOnline(mid, id, online, clock)]
          /\ spoken' = Remember(spoken, m, mid)
          /\ UNCHANGED <<clock, install, inbound, call, net, joins, torn>>
  BY DEF Probe
<1>1. PICK id \in Listed(mid), online \in BOOLEAN :
          /\ reg' = [reg EXCEPT ![m] = TouchOnline(mid, id, online, clock)]
          /\ spoken' = Remember(spoken, m, mid)
          /\ UNCHANGED <<clock, install, inbound, call, net, joins, torn>>
  BY <1>0
<1>2. PICK r : r = TouchOnline(mid, id, online, clock)
  OBVIOUS
<1>3. Removes(reg[m], mid)
  BY Types, RemovalsRemove
<1>4. Registry(mid) /\ Thins(reg[m], mid)
  BY <1>3, Types, RemovalsThin DEF Removes
<1>5. /\ Thins(mid, r) /\ Sticks(mid, r) /\ StaysOnline(mid, r, clock)
      /\ DOMAIN r.rows = DOMAIN mid.rows
  BY <1>2, <1>4, Types, TouchOnlineThins
<1>6. Thins(reg[m], r)
  BY <1>4, <1>5 DEF Thins, Alike
<1>7. Sticks(reg[m], r)
  <2>1. \A x \in DOMAIN reg[m].rows : reg[m].rows[x].paired => x \in DOMAIN mid.rows
    BY Types, PurgingsKeep
  <2> QED
    BY <1>3, <1>5, <2>1 DEF Removes, Sticks
<1>8. StaysOnline(reg[m], r, clock)
  BY <1>3, <1>5 DEF Removes, StaysOnline
<1>9. reg' = [reg EXCEPT ![m] = r]
  BY <1>1, <1>2
<1>10. DOMAIN reg' = Machine /\ reg'[m] = r /\ \A p \in Machine \ {m} : reg'[p] = reg[p]
  BY <1>9, Types, OneRegistry
<1>11. Recalls(spoken, m, mid, spoken')
  BY <1>1, Types, Remembers
<1>12. ASSUME NEW p \in Machine
       PROVE  RowsGood(p, reg'[p], spoken'[p], clock)
  <2>1. RowsGood(p, reg[p], spoken[p], clock)
    BY Types
  <2>2. CASE p # m
    BY <1>10, <1>11, <2>1, <2>2 DEF Recalls
  <2>3. CASE p = m
    <3>1. \A x \in AllIds :
            spoken'[m][x] = IF x \in DOMAIN r.rows THEN spoken[m][x] ELSE Silence[x]
      BY <1>5, <1>11 DEF Recalls
    <3>2. RowsGood(m, r, spoken'[m], clock)
      BY <1>6, <2>1, <2>3, <3>1, ThinsGood
    <3> QED
      BY <1>10, <2>3, <3>2
  <2> QED
    BY <2>2, <2>3
<1>13. PairingInv'
  <2>1. \A p \in Machine :
           /\ DOMAIN reg'[p].secret \subseteq DOMAIN reg[p].secret
           /\ \A x \in DOMAIN reg'[p].secret : reg'[p].secret[x] = reg[p].secret[x]
    BY <1>6, <1>10 DEF Thins
  <2>2. \A p \in Machine : DOMAIN reg'[p].codes \subseteq DOMAIN reg[p].codes
    BY <1>6, <1>10 DEF Thins
  <2>3. CodesOK'
    BY <1>1, <2>2, SameCodes DEF PairingInv
  <2>4. spoken' \in History
    BY <1>11 DEF Recalls
  <2>5. DOMAIN inbound' = Machine /\ \A p \in Machine : DOMAIN inbound'[p] \subseteq AllIds
    BY <1>1, Types DEF TypesOK
  <2> QED
    BY <1>1, <1>10, <1>12, <2>1, <2>3, <2>4, <2>5, LocalStep
<1>14. StepOnline /\ StepSticks
  BY <1>7, <1>8, <1>9, Types, OneRegistry
<1> QED
  BY <1>13, <1>14

\* Nothing happens to the rows.
LEMMA SameRows ==
  ASSUME RowsOK, UNCHANGED <<clock, install, reg, spoken>>
  PROVE  RowsOK'
  BY DEF RowsOK, RowsGood, RowGood, Issued, Current, Id

\* Nothing happens to the secrets, and no answer comes or goes between machines
\* that are not torn apart.
LEMMA SameSecrets ==
  ASSUME SecretsOK, UNCHANGED install, torn \subseteq torn',
         \A m \in Machine : reg'[m].secret = reg[m].secret,
         \A m, p \in Machine : {m, p} \notin torn' => Telling(m, p)' = Telling(m, p)
  PROVE  SecretsOK'
<1>1. ASSUME NEW m \in Machine, NEW id \in DOMAIN reg'[m].secret
      PROVE  Issued(id)'
  BY <1>1 DEF SecretsOK, Issued
<1>2. ASSUME NEW m \in Machine, NEW p \in Machine, m # p, {m, p} \notin torn'
      PROVE  Agreed(m, p)'
  <2>1. Agreed(m, p)
    BY <1>2 DEF SecretsOK
  <2>2. {p, m} \notin torn'
    <3>1. {p, m} = {m, p}
      OBVIOUS
    <3> QED
      BY <1>2, <3>1
  <2>3. Telling(m, p)' = Telling(m, p) /\ Telling(p, m)' = Telling(p, m)
    BY <1>2, <2>2
  <2> QED
    BY <2>1, <2>3, AgreedStays
<1> QED
  BY <1>1, <1>2 DEF SecretsOK

\* Time passes: what is fresh may become stale, not the other way round.
LEMMA TickStep ==
  ASSUME PairingInv, Tick
  PROVE  PairingInv' /\ StepOnline /\ StepSticks
<1>1. /\ clock < MaxClock /\ clock' = clock + 1
      /\ UNCHANGED <<install, reg, inbound, call, net, joins, torn, spoken>>
  BY DEF Tick
<1>2. clock \in Nat /\ MaxClock \in Nat /\ clock' \in 0..MaxClock
  BY <1>1, Types, PairingAssumption
<1>3. TypesOK'
  BY <1>1, <1>2, Types DEF TypesOK, Id
<1>4. MessagesOK'
  <2>1. ASSUME NEW q \in net
        PROVE  q.me.seen <= clock'
    <3>1. q.me \in Device /\ q.me.seen <= clock
      BY DEF PairingInv, MessagesOK
    <3>2. q.me.seen \in Nat
      BY <3>1 DEF Device
    <3> QED
      BY <1>1, <1>2, <3>1, <3>2
  <2> QED
    BY <1>1, <2>1 DEF PairingInv, MessagesOK, Id
<1>5. WaitingOK'
  BY <1>1 DEF PairingInv, WaitingOK, CallsOK, AwaitedOK, AnswersOK, Outstanding, Issued
<1>6. RowsOK'
  <2>1. ASSUME NEW m \in Machine
        PROVE  RowsGood(m, reg[m], spoken[m], clock + 1)
    <3>1. ASSUME NEW id \in AllIds
          PROVE  RowGood(m, reg[m], id, spoken[m][id], clock + 1)
      <4>1. RowGood(m, reg[m], id, spoken[m][id], clock) /\ spoken[m][id] \in Saying
        BY Types DEF RowsGood
      <4>2. CASE Known(reg[m], id)
        <5>1. Attested(reg[m].rows[id], spoken[m][id], clock)
          BY <4>1, <4>2 DEF RowGood
        <5>2. Attested(reg[m].rows[id], spoken[m][id], clock + 1)
          <6>1. /\ spoken[m][id].mdnsAt \in Nat \cup {None}
                /\ spoken[m][id].heardAt \in Nat \cup {None}
                /\ MdnsFresh \in Nat
            BY <4>1, DeviceTableAssumption DEF Saying
          <6> QED
            BY <1>2, <5>1, <6>1 DEF Attested
        <5> QED
          BY <4>1, <4>2, <5>2 DEF RowGood
      <4>3. CASE ~Known(reg[m], id)
        BY <4>1, <4>3 DEF RowGood
      <4> QED
        BY <4>2, <4>3
    <3> QED
      BY <3>1, Types DEF RowsGood
  <2> QED
    BY <1>1, <2>1 DEF RowsOK, RowsGood, RowGood, Issued, Current, Id
<1>7. CodesOK'
  BY <1>1, SameCodes DEF PairingInv
<1>8. SecretsOK'
  <2>1. \A m, p \in Machine : Telling(m, p)' = Telling(m, p)
    BY <1>1 DEF Telling
  <2> QED
    BY <1>1, <2>1, SameSecrets DEF PairingInv
<1>9. StepOnline /\ StepSticks
  BY <1>1 DEF StepOnline, StepSticks, StaysOnline, Sticks
<1> QED
  BY <1>3, <1>4, <1>5, <1>6, <1>7, <1>8, <1>9 DEF PairingInv

\* Nothing is on its way to or from a machine that waits for nothing.
LEMMA NothingOutstanding ==
  ASSUME PairingInv, NEW m \in Machine, call[m] = Idle
  PROVE  \A x \in net : ~Outstanding(x, m)
  BY DEF PairingInv, WaitingOK, AwaitedOK

\* A call: its request is the one message that the machine waits for.
LEMMA CallStep ==
  ASSUME PairingInv, NEW m \in Machine, NEW kind \in Kind, NEW id \in AllIds, NEW code,
         Call(m, kind, id, code)
  PROVE  PairingInv' /\ StepOnline /\ StepSticks
<1>1. PICK x : x = [type |-> "request", kind |-> kind, from |-> m, id |-> Id(m),
                    to |-> reg[m].rows[id].addr, me |-> Me(m), code |-> code,
                    wanted |-> TRUE, n |-> events]
  OBVIOUS
<1>2. /\ call[m] = Idle /\ Known(reg[m], id) /\ reg[m].rows[id].addr \in Machine \ {m}
      /\ call' = [call EXCEPT ![m] = [kind |-> kind, peer |-> id]]
      /\ net' = net \cup {x}
      /\ UNCHANGED <<clock, install, reg, inbound, joins, torn, spoken>>
  BY <1>1 DEF Call, LockFree
<1>3. /\ x.type = "request" /\ x.kind = kind /\ x.from = m /\ x.id = Id(m)
      /\ x.to = reg[m].rows[id].addr /\ x.me = Me(m) /\ x.wanted = TRUE
      /\ x = [type |-> x.type, kind |-> x.kind, from |-> x.from, id |-> x.id, to |-> x.to,
              me |-> x.me, code |-> x.code, wanted |-> x.wanted, n |-> x.n]
  BY <1>1
<1>4. Issued(id) /\ Owner(id) # m /\ Owner(id) = x.to
  <2>1. RowGood(m, reg[m], id, spoken[m][id], clock)
    BY Types DEF RowsGood
  <2>2. reg[m].rows[id].addr # "nobody"
    BY <1>2, PairingAssumption
  <2> QED
    BY <1>2, <1>3, <2>1, <2>2 DEF RowGood
<1>5. PICK c : c = [kind |-> kind, peer |-> id]
  OBVIOUS
<1>6. c \in [kind : Kind, peer : AllIds] /\ c.peer = id /\ c # Idle
  <2>1. c \in [kind : Kind, peer : AllIds] /\ c.peer = id /\ c.kind = kind
    BY <1>5
  <2>2. Idle.kind = "idle" /\ "idle" \notin Kind
    BY DEF Idle, Kind
  <2> QED
    BY <2>1, <2>2
<1>7. call'[m] = c /\ \A p \in Machine \ {m} : call'[p] = call[p]
  BY <1>2, <1>5, Types DEF TypesOK
<1>8. TypesOK'
  <2>1. call' \in [Machine -> {Idle} \cup [kind : Kind, peer : AllIds]]
    BY <1>2, <1>5, <1>6, Types DEF TypesOK
  <2> QED
    BY <1>2, <2>1, Types DEF TypesOK, Id
<1>9. MessagesOK'
  <2>1. ASSUME NEW q \in net
        PROVE  q.id = Id(q.from)'
    BY <1>2, <2>1 DEF PairingInv, MessagesOK, Id
  <2>2. x.id = Id(x.from)'
    BY <1>2, <1>3 DEF Id
  <2>3. Me(m) \in Device /\ Me(m).addr = m /\ Me(m).seen = clock
    BY MeDevice
  <2>4. clock <= clock
    BY Types
  <2> QED
    BY <1>2, <1>3, <2>1, <2>2, <2>3, <2>4 DEF PairingInv, MessagesOK
<1>10. WaitingOK'
  <2>1. \A y \in net : ~Outstanding(y, m)
    BY <1>2, NothingOutstanding
  <2>2. Outstanding(x, m) /\ \A p \in Machine \ {m} : ~Outstanding(x, p)
    BY <1>3 DEF Outstanding
  <2>3. \A p \in Machine : call'[p] # Idle =>
           IssuedUpTo(install', call'[p].peer) /\ Owner(call'[p].peer) # p
    <3> TAKE p \in Machine
    <3>1. CASE p = m
      BY <1>2, <1>4, <1>6, <1>7, <3>1 DEF Issued
    <3>2. CASE p # m
      BY <1>2, <1>7, <3>2 DEF PairingInv, WaitingOK, CallsOK, Issued
    <3> QED
      BY <3>1, <3>2
  <2>4. ASSUME NEW y \in net', NEW p \in Machine, Outstanding(y, p)
        PROVE  /\ call'[p] # Idle
               /\ Owner(call'[p].peer) = IF y.from = p THEN y.to ELSE y.from
               /\ \A z \in net' : Outstanding(z, p) => y = z
    <3>1. CASE p = m
      BY <1>2, <1>3, <1>4, <1>6, <1>7, <2>1, <2>2, <2>4, <3>1
    <3>2. CASE p # m
      <4>1. y \in net /\ \A z \in net' : Outstanding(z, p) => z \in net
        BY <1>2, <2>2, <2>4, <3>2
      <4> QED
        BY <1>7, <2>4, <3>2, <4>1 DEF PairingInv, WaitingOK, AwaitedOK
    <3> QED
      BY <3>1, <3>2
  <2>5. \A y, z \in net' : ~(/\ y.type = "response" /\ z.type = "response"
                             /\ y.from = z.to /\ y.to = z.from)
    BY <1>2, <1>3 DEF PairingInv, WaitingOK, AnswersOK
  <2>6. \A y, p : Outstanding(y, p)' <=> Outstanding(y, p)
    BY DEF Outstanding
  <2> QED
    BY <2>3, <2>4, <2>5, <2>6 DEF WaitingOK, CallsOK, AwaitedOK, AnswersOK, Issued
<1>11. RowsOK'
  BY <1>2, SameRows DEF PairingInv
<1>12. CodesOK'
  BY <1>2, SameCodes DEF PairingInv
<1>13. SecretsOK'
  <2>1. \A p, o \in Machine : Telling(p, o)' = Telling(p, o)
    BY <1>2, <1>3 DEF Telling
  <2> QED
    BY <1>2, <2>1, SameSecrets DEF PairingInv
<1>14. StepOnline /\ StepSticks
  BY <1>2 DEF StepOnline, StepSticks, StaysOnline, Sticks
<1> QED
  BY <1>8, <1>9, <1>10, <1>11, <1>12, <1>13, <1>14 DEF PairingInv

\* Giving up: nothing is left that the machine would wait for.
LEMMA TimeoutStep ==
  ASSUME PairingInv, NEW m \in Machine, Timeout(m)
  PROVE  PairingInv' /\ StepOnline /\ StepSticks
<1>1. PICK sent, late :
          /\ sent = {q \in net : q.type = "request" /\ q.from = m /\ q.wanted}
          /\ late = {a \in net : a.type = "response" /\ a.to = m}
  OBVIOUS
<1>2. PICK spared : spared = {[q EXCEPT !.wanted = FALSE] : q \in sent}
  OBVIOUS
<1>3. /\ call' = [call EXCEPT ![m] = Idle]
      /\ net' = net \ (sent \cup late) \/ (sent # {} /\ net' = (net \ sent) \cup spared)
      /\ torn' = torn \cup {{m, a.from} : a \in late}
      /\ UNCHANGED <<clock, install, reg, inbound, joins, spoken>>
  BY <1>1, <1>2 DEF Timeout
<1>4. ASSUME NEW x \in spared
      PROVE  /\ x.type = "request" /\ x.wanted = FALSE
             /\ \E q \in sent : /\ x.kind = q.kind /\ x.from = q.from /\ x.id = q.id
                                /\ x.to = q.to /\ x.me = q.me
             /\ x = [type |-> x.type, kind |-> x.kind, from |-> x.from, id |-> x.id, to |-> x.to,
                     me |-> x.me, code |-> x.code, wanted |-> x.wanted, n |-> x.n]
  <2>1. PICK q \in sent : x = [q EXCEPT !.wanted = FALSE]
    BY <1>2
  <2>2. q = [type |-> q.type, kind |-> q.kind, from |-> q.from, id |-> q.id, to |-> q.to,
             me |-> q.me, code |-> q.code, wanted |-> q.wanted, n |-> q.n] /\ q.type = "request"
    BY <1>1 DEF PairingInv, MessagesOK
  <2>3. x = [type |-> q.type, kind |-> q.kind, from |-> q.from, id |-> q.id, to |-> q.to,
             me |-> q.me, code |-> q.code, wanted |-> FALSE, n |-> q.n]
    BY <2>1, <2>2
  <2> QED
    BY <2>2, <2>3
<1>5. sent # {} => late = {}
  <2>1. ASSUME NEW q \in sent, NEW a \in late
        PROVE  FALSE
    <3>1. /\ Outstanding(q, m) /\ Outstanding(a, m) /\ q \in net /\ a \in net
          /\ q.type = "request" /\ a.type = "response"
      BY <1>1 DEF Outstanding
    <3>2. q = a
      BY <3>1 DEF PairingInv, WaitingOK, AwaitedOK
    <3> QED
      BY <3>1, <3>2
  <2> QED
    BY <2>1
<1>6. \A x \in net' : x \in net \/ x \in spared
  BY <1>3
<1>7. \A x \in net' : ~Outstanding(x, m)
  <2> TAKE x \in net'
  <2>1. CASE x \in spared
    BY <1>4, <2>1 DEF Outstanding
  <2>2. CASE x \notin spared
    BY <1>1, <1>3, <1>5, <2>2 DEF Outstanding
  <2> QED
    BY <2>1, <2>2
<1>8. call'[m] = Idle /\ \A p \in Machine \ {m} : call'[p] = call[p]
  BY <1>3, Types DEF TypesOK
<1>9. TypesOK'
  <2>1. call' \in [Machine -> {Idle} \cup [kind : Kind, peer : AllIds]]
    BY <1>3, Types DEF TypesOK
  <2> QED
    BY <1>3, <2>1, Types DEF TypesOK, Id
<1>10. MessagesOK'
  <2>1. ASSUME NEW q \in net
        PROVE  q.id = Id(q.from)'
    BY <1>3, <2>1 DEF PairingInv, MessagesOK, Id
  <2>2. sent \subseteq net
    BY <1>1
  <2>3. ASSUME NEW x \in spared
        PROVE  /\ x.type = "request" /\ x.wanted \in BOOLEAN
               /\ {x.from, x.to} \subseteq Machine /\ x.from # x.to
               /\ x.kind \in Kind
               /\ x.id = Id(x.from)' /\ x.me \in Device /\ x.me.addr = x.from
               /\ x.me.seen <= clock
               /\ x = [type |-> x.type, kind |-> x.kind, from |-> x.from, id |-> x.id, to |-> x.to,
                       me |-> x.me, code |-> x.code, wanted |-> x.wanted, n |-> x.n]
    <3>1. PICK q \in sent : /\ x.kind = q.kind /\ x.from = q.from /\ x.id = q.id
                            /\ x.to = q.to /\ x.me = q.me
      BY <1>4, <2>3
    <3>2. /\ {q.from, q.to} \subseteq Machine /\ q.from # q.to /\ q.kind \in Kind
          /\ q.me \in Device /\ q.me.addr = q.from /\ q.me.seen <= clock
      BY <2>2 DEF PairingInv, MessagesOK
    <3>3. q.id = Id(q.from)'
      BY <2>1, <2>2
    <3>4. /\ x.type = "request" /\ x.wanted \in BOOLEAN
          /\ x = [type |-> x.type, kind |-> x.kind, from |-> x.from, id |-> x.id, to |-> x.to,
                  me |-> x.me, code |-> x.code, wanted |-> x.wanted, n |-> x.n]
      BY <1>4, <2>3
    <3> QED
      BY <3>1, <3>2, <3>3, <3>4
  <2>4. ASSUME NEW q \in net'
        PROVE  /\ q.type \in {"request", "response"}
               /\ q.type = "request" =>
                     /\ q.wanted \in BOOLEAN
                     /\ q = [type |-> q.type, kind |-> q.kind, from |-> q.from, id |-> q.id,
                             to |-> q.to, me |-> q.me, code |-> q.code, wanted |-> q.wanted,
                             n |-> q.n]
               /\ {q.from, q.to} \subseteq Machine /\ q.from # q.to
               /\ q.kind \in Kind
               /\ q.id = Id(q.from)' /\ q.me \in Device /\ q.me.addr = q.from
               /\ q.me.seen <= clock
    <3>1. CASE q \in net
      BY <2>1, <3>1 DEF PairingInv, MessagesOK
    <3>2. CASE q \in spared
      BY <2>3, <3>2
    <3> QED
      BY <1>6, <3>1, <3>2
  <2> QED
    BY <1>3, <2>4 DEF MessagesOK
<1>11. WaitingOK'
  <2>1. \A p \in Machine : call'[p] # Idle =>
           IssuedUpTo(install', call'[p].peer) /\ Owner(call'[p].peer) # p
    BY <1>3, <1>8 DEF PairingInv, WaitingOK, CallsOK, Issued
  <2>2. \A x \in spared, p \in Machine : ~Outstanding(x, p)
    BY <1>4 DEF Outstanding
  <2>3. ASSUME NEW y \in net', NEW p \in Machine, Outstanding(y, p)
        PROVE  /\ call'[p] # Idle
               /\ Owner(call'[p].peer) = IF y.from = p THEN y.to ELSE y.from
               /\ \A z \in net' : Outstanding(z, p) => y = z
    <3>1. p # m
      BY <1>7, <2>3
    <3>2. y \in net /\ \A z \in net' : Outstanding(z, p) => z \in net
      BY <1>6, <2>2, <2>3
    <3> QED
      BY <1>8, <2>3, <3>1, <3>2 DEF PairingInv, WaitingOK, AwaitedOK
  <2>4. \A y, z \in net' : ~(/\ y.type = "response" /\ z.type = "response"
                             /\ y.from = z.to /\ y.to = z.from)
    <3>1. \A x \in spared : x.type # "response"
      BY <1>4
    <3> QED
      BY <1>6, <3>1 DEF PairingInv, WaitingOK, AnswersOK
  <2>5. \A y, p : Outstanding(y, p)' <=> Outstanding(y, p)
    BY DEF Outstanding
  <2> QED
    BY <2>1, <2>3, <2>4, <2>5 DEF WaitingOK, CallsOK, AwaitedOK, AnswersOK, Issued
<1>12. RowsOK'
  BY <1>3, SameRows DEF PairingInv
<1>13. CodesOK'
  BY <1>3, SameCodes DEF PairingInv
<1>14. SecretsOK'
  <2>1. ASSUME NEW p \in Machine, NEW o \in Machine, {p, o} \notin torn'
        PROVE  Telling(p, o)' = Telling(p, o)
    <3>1. ASSUME NEW a \in net, a.type = "response", a.from = o, a.to = p
          PROVE  a \in net'
      <4>1. a \notin sent
        BY <1>1, <3>1
      <4>2. a \notin late
        <5>1. a \in late => {m, a.from} = {p, o}
          BY <1>1, <3>1
        <5> QED
          BY <1>3, <2>1, <5>1
      <4> QED
        BY <1>3, <3>1, <4>1, <4>2
    <3>2. ASSUME NEW a \in net', a.type = "response"
          PROVE  a \in net
      BY <1>4, <1>6, <3>2
    <3> QED
      BY <3>1, <3>2 DEF Telling
  <2> QED
    BY <1>3, <2>1, SameSecrets DEF PairingInv
<1>15. StepOnline /\ StepSticks
  BY <1>3 DEF StepOnline, StepSticks, StaysOnline, Sticks
<1> QED
  BY <1>9, <1>10, <1>11, <1>12, <1>13, <1>14, <1>15 DEF PairingInv

\* What the four outcomes of a request leave: of a code that is not valid,
\* nothing; of a request to pair, the secret; of a confirmation, a meeting too;
\* and a join spends its code.
Serves(m, q, r) ==
    LET shared == Shares(reg[m], q.id, [by |-> m, for |-> q.n], r)
        met == /\ Meets(reg[m], q.id, q.me, r)
               /\ Heeds(spoken, m, r, q.id, q.me, spoken')
    IN  \/ r = reg[m] /\ q.kind = "join" /\ UNCHANGED <<joins, spoken>>
        \/ /\ Registry(r) /\ r.rows = reg[m].rows /\ r.codes = reg[m].codes /\ shared
           /\ UNCHANGED <<joins, spoken>>
        \/ met /\ shared /\ r.codes = reg[m].codes /\ UNCHANGED joins
        \/ /\ met /\ shared /\ DOMAIN r.codes = DOMAIN reg[m].codes \ {q.code}
           /\ q.code \in DOMAIN reg[m].codes
           /\ joins' = joins \cup {[code |-> q.code, n |-> q.n]}

\* The answer to a request that somebody waits for.
AnswerTo(q, m, ok, a) ==
    /\ a.type = "response" /\ a.kind = q.kind /\ a.to = q.from /\ a.from = m
    /\ a.id = Id(m) /\ a.me = Me(m) /\ (a.ok <=> ok) /\ a.secret = [by |-> m, for |-> q.n]

\* A request is served by a machine that waits for nothing, and answered to a
\* machine that waits for the answer.
Served(m, q, r, ok) ==
    /\ q \in net /\ q.type = "request" /\ q.to = m /\ call[m] = Idle
    /\ DOMAIN reg' = Machine /\ reg'[m] = r /\ \A p \in Machine \ {m} : reg'[p] = reg[p]
    /\ Serves(m, q, r)
    /\ ~ok => r = reg[m]
    /\ DOMAIN inbound' = Machine /\ \A p \in Machine : DOMAIN inbound'[p] \subseteq AllIds
    /\ IF q.wanted THEN \E a : AnswerTo(q, m, ok, a) /\ net' = (net \ {q}) \cup {a}
                   ELSE net' = net \ {q}
    /\ torn' = IF ~ok THEN torn ELSE IF q.wanted THEN torn \ {{m, q.from}}
                                     ELSE torn \cup {{m, q.from}}
    /\ ok => Shares(reg[m], q.id, [by |-> m, for |-> q.n], r)
    /\ UNCHANGED <<clock, install, call>>

\* Every request on its way is by a machine of the model, with its id.
LEMMA Requests ==
  ASSUME PairingInv, NEW q \in net
  PROVE  /\ q.from \in Machine /\ q.to \in Machine /\ q.from # q.to
         /\ q.id = Id(q.from) /\ q.id \in AllIds /\ Owner(q.id) = q.from /\ Issued(q.id)
         /\ q.me \in Device /\ q.me.addr = q.from /\ q.me.seen \in Nat /\ q.me.seen <= clock
         /\ q.kind \in Kind /\ q.type \in {"request", "response"}
<1>1. /\ {q.from, q.to} \subseteq Machine /\ q.from # q.to /\ q.kind \in Kind
      /\ q.id = Id(q.from) /\ q.me \in Device /\ q.me.addr = q.from /\ q.me.seen <= clock
      /\ q.type \in {"request", "response"}
  BY DEF PairingInv, MessagesOK
<1>2. q.id \in AllIds /\ Owner(q.id) = q.from /\ Issued(q.id)
  BY <1>1, Types, RunningIds
<1>3. q.me.seen \in Nat
  BY <1>1 DEF Device
<1> QED
  BY <1>1, <1>2, <1>3

\* What a served request does to the registry.
LEMMA ServeEffect ==
  ASSUME PairingInv, NEW m \in Machine, Serve(m)
  PROVE  \E q, r : \E ok \in BOOLEAN : Served(m, q, r, ok)
<1>1. PICK q \in net :
        LET s == [by |-> m, for |-> q.n]
            spent == q.kind = "join" /\ ~ValidCode(reg[m], q.code, clock)
            serve(r, waiting) ==
                /\ reg' = [reg EXCEPT ![m] = r]
                /\ inbound' = [inbound EXCEPT ![m] = waiting]
        IN  /\ q.type = "request" /\ q.to = m
            /\ LockFree(m)
            /\ \/ /\ q.kind = "request"
                  /\ serve(PairRequest(reg[m], q, s), Put(inbound[m], q.id, q.me.uid))
                  /\ UNCHANGED joins
               \/ /\ q.kind = "confirm"
                  /\ serve(PairConfirm(reg[m], q, s), Drop(inbound[m], {q.id}))
                  /\ UNCHANGED joins
               \/ /\ q.kind = "join" /\ ~spent
                  /\ serve(Join(reg[m], q, s), inbound[m])
                  /\ joins' = joins \cup {[code |-> q.code, n |-> q.n]}
               \/ spent /\ UNCHANGED <<reg, inbound, joins>>
            /\ net' = (net \ {q}) \cup Answer(q, ~spent, s, Id(m))
            /\ torn' = IF spent THEN torn
                       ELSE IF q.wanted THEN torn \ {{m, q.from}}
                       ELSE torn \cup {{m, q.from}}
            /\ spoken' = IF spent \/ q.kind = "request" THEN spoken
                         ELSE Met(spoken, m, reg'[m], q.id, q.me)
            /\ UNCHANGED <<clock, install, call, events>>
  BY DEF Serve
<1>2. PICK s, spent : /\ s = [by |-> m, for |-> q.n]
                      /\ spent = (q.kind = "join" /\ ~ValidCode(reg[m], q.code, clock))
  OBVIOUS
<1>3. spent \in BOOLEAN
  BY <1>2
<1>4. /\ q.type = "request" /\ q.to = m /\ call[m] = Idle
      /\ net' = (net \ {q}) \cup Answer(q, ~spent, s, Id(m))
      /\ torn' = IF spent THEN torn
                 ELSE IF q.wanted THEN torn \ {{m, q.from}} ELSE torn \cup {{m, q.from}}
      /\ spoken' = IF spent \/ q.kind = "request" THEN spoken
                   ELSE Met(spoken, m, reg'[m], q.id, q.me)
      /\ UNCHANGED <<clock, install, call>>
  BY <1>1, <1>2 DEF LockFree
<1>5. IF q.wanted THEN \E a : AnswerTo(q, m, ~spent, a) /\ net' = (net \ {q}) \cup {a}
                  ELSE net' = net \ {q}
  <2>1. CASE q.wanted
    <3>1. PICK a : a = [type |-> "response", kind |-> q.kind, to |-> q.from,
                        from |-> q.to, id |-> Id(m), me |-> Me(q.to), ok |-> ~spent,
                        secret |-> s]
      OBVIOUS
    <3>2. net' = (net \ {q}) \cup {a}
      BY <1>4, <2>1, <3>1 DEF Answer
    <3>3. AnswerTo(q, m, ~spent, a)
      BY <1>2, <1>4, <3>1 DEF AnswerTo
    <3> QED
      BY <2>1, <3>2, <3>3
  <2>2. CASE ~q.wanted
    BY <1>4, <2>2 DEF Answer
  <2> QED
    BY <2>1, <2>2
<1>6. DOMAIN reg = Machine /\ DOMAIN inbound = Machine /\ Registry(reg[m])
      /\ \A p \in Machine : DOMAIN inbound[p] \subseteq AllIds
  BY Types DEF TypesOK
<1>7. /\ q.id \in AllIds /\ q.me \in Device /\ q.me.seen \in Nat
  BY Requests
<1>8. ASSUME NEW waiting, DOMAIN waiting \subseteq AllIds, inbound' = [inbound EXCEPT ![m] = waiting]
      PROVE  DOMAIN inbound' = Machine /\ \A p \in Machine : DOMAIN inbound'[p] \subseteq AllIds
  BY <1>6, <1>8
<1>9. ASSUME NEW r, reg' = [reg EXCEPT ![m] = r] \/ (r = reg[m] /\ UNCHANGED reg),
             Serves(m, q, r), spent => r = reg[m],
             ~spent => Shares(reg[m], q.id, [by |-> m, for |-> q.n], r),
             DOMAIN inbound' = Machine, \A p \in Machine : DOMAIN inbound'[p] \subseteq AllIds
      PROVE  \E ok \in BOOLEAN : Served(m, q, r, ok)
  <2>1. PICK ok \in BOOLEAN : ok <=> ~spent
    BY <1>3
  <2>2. IF q.wanted THEN \E a : AnswerTo(q, m, ok, a) /\ net' = (net \ {q}) \cup {a}
                    ELSE net' = net \ {q}
    BY <1>5, <2>1 DEF AnswerTo
  <2>3. DOMAIN reg' = Machine /\ reg'[m] = r /\ \A p \in Machine \ {m} : reg'[p] = reg[p]
    BY <1>6, <1>9
  <2>4. Served(m, q, r, ok)
    BY <1>4, <1>9, <2>1, <2>2, <2>3 DEF Served
  <2> QED
    BY <2>4
<1>10. CASE spent /\ UNCHANGED <<reg, inbound, joins>>
  <2>1. Serves(m, q, reg[m])
    BY <1>2, <1>4, <1>10 DEF Serves
  <2> QED
    BY <1>6, <1>9, <1>10, <2>1
<1>11. CASE /\ q.kind = "request"
            /\ reg' = [reg EXCEPT ![m] = PairRequest(reg[m], q, s)]
            /\ inbound' = [inbound EXCEPT ![m] = Put(inbound[m], q.id, q.me.uid)]
            /\ UNCHANGED joins
  <2>1. PICK r : r = PairRequest(reg[m], q, s)
    OBVIOUS
  <2>2. Registry(r) /\ r.rows = reg[m].rows /\ r.codes = reg[m].codes /\ Shares(reg[m], q.id, s, r)
    BY <1>6, <1>7, <2>1, PairRequestEffect
  <2>3. ~spent
    BY <1>2, <1>11
  <2>4. Serves(m, q, r)
    BY <1>2, <1>4, <1>11, <2>2 DEF Serves
  <2>5. DOMAIN Put(inbound[m], q.id, q.me.uid) \subseteq AllIds
    BY <1>6, <1>7 DEF Put
  <2> QED
    BY <1>2, <1>8, <1>9, <1>11, <2>1, <2>2, <2>3, <2>4, <2>5
<1>12. ASSUME NEW r, reg' = [reg EXCEPT ![m] = r], Meets(reg[m], q.id, q.me, r), ~spent,
              q.kind # "request"
       PROVE  Heeds(spoken, m, r, q.id, q.me, spoken')
  <2>1. Known(r, q.id)
    BY <1>12 DEF Meets, Known
  <2>2. reg'[m] = r
    BY <1>6, <1>12
  <2>3. spoken' = Met(spoken, m, r, q.id, q.me)
    BY <1>4, <1>12, <2>2
  <2> QED
    BY <1>7, <2>1, <2>3, Types, Meetings
<1>13. CASE /\ q.kind = "confirm"
            /\ reg' = [reg EXCEPT ![m] = PairConfirm(reg[m], q, s)]
            /\ inbound' = [inbound EXCEPT ![m] = Drop(inbound[m], {q.id})]
            /\ UNCHANGED joins
  <2>1. PICK r : r = PairConfirm(reg[m], q, s)
    OBVIOUS
  <2>2. Meets(reg[m], q.id, q.me, r) /\ r.codes = reg[m].codes /\ Shares(reg[m], q.id, s, r)
    BY <1>6, <1>7, <2>1, PairConfirmEffect
  <2>3. ~spent
    BY <1>2, <1>13
  <2>4. Heeds(spoken, m, r, q.id, q.me, spoken')
    BY <1>12, <1>13, <2>1, <2>2, <2>3
  <2>5. Serves(m, q, r)
    BY <1>2, <1>13, <2>2, <2>4 DEF Serves
  <2>6. DOMAIN Drop(inbound[m], {q.id}) \subseteq AllIds
    BY <1>6 DEF Drop, Restrict
  <2> QED
    BY <1>2, <1>8, <1>9, <1>13, <2>1, <2>2, <2>3, <2>5, <2>6
<1>14. CASE /\ q.kind = "join" /\ ~spent
            /\ reg' = [reg EXCEPT ![m] = Join(reg[m], q, s)]
            /\ inbound' = [inbound EXCEPT ![m] = inbound[m]]
            /\ joins' = joins \cup {[code |-> q.code, n |-> q.n]}
  <2>1. PICK r : r = Join(reg[m], q, s)
    OBVIOUS
  <2>2. /\ Meets(reg[m], q.id, q.me, r) /\ Shares(reg[m], q.id, s, r)
        /\ DOMAIN r.codes = DOMAIN reg[m].codes \ {q.code}
    BY <1>6, <1>7, <2>1, JoinEffect
  <2>3. q.code \in DOMAIN reg[m].codes
    BY <1>2, <1>14 DEF ValidCode
  <2>4. Heeds(spoken, m, r, q.id, q.me, spoken')
    BY <1>12, <1>14, <2>1, <2>2
  <2>5. Serves(m, q, r)
    BY <1>2, <1>14, <2>2, <2>3, <2>4 DEF Serves
  <2> QED
    BY <1>2, <1>6, <1>8, <1>9, <1>14, <2>1, <2>2, <2>5
<1> QED
  BY <1>1, <1>2, <1>10, <1>11, <1>13, <1>14

\* Where the other registries stay, they lose nobody.
LEMMA OthersStay ==
  ASSUME NEW m \in Machine, \A p \in Machine \ {m} : reg'[p] = reg[p]
  PROVE  /\ StaysLit(reg[m], reg'[m]) => StepOnline
         /\ Sticks(reg[m], reg'[m]) => StepSticks
<1>1. \A p \in Machine : Sticks(reg[p], reg[p]) /\ StaysOnline(reg[p], reg[p], clock)
  BY DEF Sticks, StaysOnline
<1>2. StaysLit(reg[m], reg'[m]) => StaysOnline(reg[m], reg'[m], clock)
  BY DEF StaysLit, StaysOnline
<1> QED
  BY <1>1, <1>2 DEF StepOnline, StepSticks

\* What is remembered of a meeting goes with the row of who was met.
LEMMA HeededGood ==
  ASSUME PairingInv, NEW m \in Machine, NEW r, NEW id \in AllIds, NEW w,
         Meets(reg[m], id, w, r), Heeds(spoken, m, r, id, w, spoken'),
         Owner(id) # m, Issued(id), w.addr = Owner(id), w.seen \in Nat, w.seen <= clock
  PROVE  RowsGood(m, r, spoken'[m], clock)
<1>1. RowsGood(m, reg[m], spoken[m], clock) /\ clock \in Nat
  BY Types
<1>2. DOMAIN reg[m].rows \subseteq DOMAIN r.rows
  BY DEF Meets
<1>3. \A x \in AllIds \ {id} : spoken'[m][x] = spoken[m][x]
  BY <1>1, <1>2, StillSilent DEF Heeds
<1>4. /\ spoken'[m][id].mdnsAt = spoken[m][id].mdnsAt
      /\ spoken'[m][id].heardAt = w.seen /\ w.seen <= w.seen
  BY DEF Heeds
<1> QED
  BY <1>1, <1>3, <1>4, MeetsGood

\* The messages after a request was served.
LEMMA ServeMessages ==
  ASSUME PairingInv, NEW m \in Machine, NEW q, NEW r, NEW ok \in BOOLEAN, Served(m, q, r, ok)
  PROVE  MessagesOK' /\ WaitingOK'
<1>1. /\ q \in net /\ q.type = "request" /\ q.to = m /\ call[m] = Idle
      /\ UNCHANGED <<clock, install, call>>
  BY DEF Served
<1>2. q.from \in Machine /\ q.from # m /\ q.kind \in Kind
  BY <1>1, Requests
<1>3. \A x \in net : ~Outstanding(x, m)
  BY <1>1, NothingOutstanding
<1>4. \A x : \A p \in Machine : Outstanding(x, p)' <=> Outstanding(x, p)
  BY DEF Outstanding
<1>5. \A x \in net : x.id = Id(x.from)'
  BY <1>1 DEF PairingInv, MessagesOK, Id
<1>6. CASE q.wanted
  <2>1. PICK a : AnswerTo(q, m, ok, a) /\ net' = (net \ {q}) \cup {a}
    BY <1>6 DEF Served
  <2>2. /\ a.type = "response" /\ a.kind = q.kind /\ a.to = q.from /\ a.from = m
        /\ a.id = Id(m) /\ a.me = Me(m)
    BY <2>1 DEF AnswerTo
  <2>3. a.id = Id(a.from)'
    BY <1>1, <2>2 DEF Id
  <2>4. a.me \in Device /\ a.me.addr = a.from /\ a.me.seen <= clock
    BY <2>2, MeDevice, Types
  <2>5. MessagesOK'
    BY <1>1, <1>2, <1>5, <2>1, <2>2, <2>3, <2>4 DEF PairingInv, MessagesOK
  <2>6. Outstanding(q, q.from) /\ Outstanding(a, q.from)
    BY <1>1, <1>6, <2>2 DEF Outstanding
  <2>7. call[q.from] # Idle /\ Owner(call[q.from].peer) = m /\ \A y \in net : Outstanding(y, q.from) => y = q
    BY <1>1, <1>2, <2>6 DEF PairingInv, WaitingOK, AwaitedOK
  <2>8. \A p \in Machine : Outstanding(a, p) => p = q.from
    BY <2>2 DEF Outstanding
  <2>9. ASSUME NEW x \in net', NEW p \in Machine, Outstanding(x, p)
        PROVE  /\ call[p] # Idle
               /\ Owner(call[p].peer) = IF x.from = p THEN x.to ELSE x.from
               /\ \A y \in net' : Outstanding(y, p) => x = y
    <3>1. CASE p = q.from
      <4>1. \A y \in net' : Outstanding(y, p) => y = a
        BY <2>1, <2>7, <3>1
      <4>2. x = a
        BY <2>9, <4>1
      <4> QED
        BY <1>2, <2>2, <2>7, <3>1, <4>1, <4>2
    <3>2. CASE p # q.from
      <4>1. x \in net /\ \A y \in net' : Outstanding(y, p) => y \in net
        BY <2>1, <2>8, <2>9, <3>2
      <4> QED
        BY <2>9, <4>1 DEF PairingInv, WaitingOK, AwaitedOK
    <3> QED
      BY <3>1, <3>2
  <2>10. ASSUME NEW x \in net', NEW y \in net', x.type = "response", y.type = "response",
                x.from = y.to, x.to = y.from
         PROVE  FALSE
    <3>1. \A z \in net : ~(z.type = "response" /\ z.to = m)
      BY <1>3 DEF Outstanding
    <3>2. CASE x \in net /\ y \in net
      BY <2>10, <3>2 DEF PairingInv, WaitingOK, AnswersOK
    <3>3. CASE x = a \/ y = a
      BY <1>2, <2>1, <2>2, <2>10, <3>1, <3>3
    <3> QED
      BY <2>1, <3>2, <3>3
  <2>11. CallsOK'
    BY <1>1 DEF PairingInv, WaitingOK, CallsOK, Issued
  <2>12. AwaitedOK'
    BY <1>1, <1>4, <2>9 DEF AwaitedOK
  <2>13. AnswersOK'
    BY <2>10 DEF AnswersOK
  <2> QED
    BY <2>5, <2>11, <2>12, <2>13 DEF WaitingOK
<1>7. CASE ~q.wanted
  <2>1. net' = net \ {q}
    BY <1>7 DEF Served
  <2>2. MessagesOK'
    BY <1>1, <1>5, <2>1 DEF PairingInv, MessagesOK
  <2>3. CallsOK'
    BY <1>1 DEF PairingInv, WaitingOK, CallsOK, Issued
  <2>4. AwaitedOK'
    BY <1>1, <1>4, <2>1 DEF PairingInv, WaitingOK, AwaitedOK
  <2>5. AnswersOK'
    BY <2>1 DEF PairingInv, WaitingOK, AnswersOK
  <2> QED
    BY <2>2, <2>3, <2>4, <2>5 DEF WaitingOK
<1> QED
  BY <1>6, <1>7

\* A secret of two machines is stored: other machines do not see it.
LEMMA OthersAgree ==
  ASSUME PairingInv, NEW m \in Machine, NEW o \in Machine, NEW id \in AllIds, Owner(id) = o,
         NEW s, Shares(reg[m], id, s, reg'[m]), \A p \in Machine \ {m} : reg'[p] = reg[p],
         UNCHANGED install, NEW x \in Machine, NEW y \in Machine, x # y, {x, y} # {m, o},
         Telling(x, y)' = Telling(x, y), Telling(y, x)' = Telling(y, x), {x, y} \notin torn
  PROVE  Agreed(x, y)'
<1>1. \A z \in DOMAIN reg[m].secret \ {id} : reg'[m].secret[z] = reg[m].secret[z]
  BY DEF Shares
<1>2. DOMAIN reg'[m].secret = DOMAIN reg[m].secret \cup {id}
  BY DEF Shares
<1>3. ASSUME NEW u \in Machine, NEW v \in Machine, {u, v} = {x, y}, u # v,
             Id(v) \in DOMAIN reg'[u].secret
      PROVE  Id(v) \in DOMAIN reg[u].secret /\ reg'[u].secret[Id(v)] = reg[u].secret[Id(v)]
  <2>1. CASE u = m
    <3>1. v # o
      BY <1>3, <2>1
    <3>2. Id(v) # id
      BY <3>1, Types, RunningIds
    <3> QED
      BY <1>1, <1>2, <1>3, <2>1, <3>2
  <2>2. CASE u # m
    BY <1>3, <2>2
  <2> QED
    BY <2>1, <2>2
<1>4. {y, x} = {x, y}
  OBVIOUS
<1>5. Id(x) \in DOMAIN reg'[y].secret =>
         Id(x) \in DOMAIN reg[y].secret /\ reg'[y].secret[Id(x)] = reg[y].secret[Id(x)]
  BY <1>3, <1>4
<1>6. Id(y) \in DOMAIN reg'[x].secret =>
         Id(y) \in DOMAIN reg[x].secret /\ reg'[x].secret[Id(y)] = reg[x].secret[Id(y)]
  BY <1>3
<1>7. Agreed(x, y)
  BY DEF PairingInv, SecretsOK
<1> QED
  BY <1>5, <1>6, <1>7, AgreedStays

\* The secrets after a request was served: the two machines are torn apart, or
\* the answer brings the secret that was stored.
LEMMA ServeSecrets ==
  ASSUME PairingInv, NEW m \in Machine, NEW q, NEW r, NEW ok \in BOOLEAN, Served(m, q, r, ok)
  PROVE  SecretsOK'
<1>1. /\ q \in net /\ q.type = "request" /\ q.to = m /\ call[m] = Idle
      /\ reg'[m] = r /\ \A p \in Machine \ {m} : reg'[p] = reg[p]
      /\ UNCHANGED <<clock, install, call>>
  BY DEF Served
<1>2. /\ q.from \in Machine /\ q.from # m /\ q.id = Id(q.from) /\ q.id \in AllIds
      /\ Owner(q.id) = q.from /\ Issued(q.id)
  BY <1>1, Requests
<1>3. \A x \in net : ~Outstanding(x, m)
  BY <1>1, NothingOutstanding
<1>4. CASE ~ok
  <2>1. \A p \in Machine : reg'[p].secret = reg[p].secret
    BY <1>1, <1>4 DEF Served
  <2>2. torn' = torn
    BY <1>4 DEF Served
  <2>3. \A x, y \in Machine : Telling(x, y)' = Telling(x, y)
    <3>1. CASE q.wanted
      <4>1. PICK a : AnswerTo(q, m, ok, a) /\ net' = (net \ {q}) \cup {a}
        BY <3>1 DEF Served
      <4> QED
        BY <1>1, <1>4, <4>1 DEF AnswerTo, Telling
    <3>2. CASE ~q.wanted
      <4>1. net' = net \ {q}
        BY <3>2 DEF Served
      <4> QED
        BY <1>1, <4>1 DEF Telling
    <3> QED
      BY <3>1, <3>2
  <2> QED
    BY <1>1, <2>1, <2>2, <2>3, SameSecrets DEF PairingInv
<1>5. CASE ok
  <2>1. PICK s : s = [by |-> m, for |-> q.n]
    OBVIOUS
  <2>2. Shares(reg[m], q.id, s, r)
    BY <1>5, <2>1 DEF Served
  <2>3. /\ DOMAIN r.secret = DOMAIN reg[m].secret \cup {q.id} /\ r.secret[q.id] = s
        /\ \A x \in DOMAIN reg[m].secret \ {q.id} : r.secret[x] = reg[m].secret[x]
    BY <2>2 DEF Shares
  <2>4. \A x \in Machine : \A id \in DOMAIN reg'[x].secret : Issued(id)'
    BY <1>1, <1>2, <2>3 DEF PairingInv, SecretsOK, Issued
  <2>5. ASSUME NEW x \in Machine, NEW y \in Machine, {x, y} # {m, q.from}, x # y,
               Telling(x, y)' = Telling(x, y), Telling(y, x)' = Telling(y, x), {x, y} \notin torn
        PROVE  Agreed(x, y)'
    BY <1>1, <1>2, <2>2, <2>5, OthersAgree
  <2>6. CASE q.wanted
    <3>1. PICK a : AnswerTo(q, m, ok, a) /\ net' = (net \ {q}) \cup {a}
      BY <2>6 DEF Served
    <3>2. a.type = "response" /\ a.to = q.from /\ a.from = m /\ a.secret = s /\ a.ok
      BY <1>5, <2>1, <3>1 DEF AnswerTo
    <3>3. torn' = torn \ {{m, q.from}}
      BY <1>5, <2>6 DEF Served
    <3>4. Telling(q.from, m)' = {a}
      <4>1. ASSUME NEW b \in net, b.type = "response", b.to = q.from
            PROVE  FALSE
        <5>1. Outstanding(q, q.from) /\ Outstanding(b, q.from)
          BY <1>1, <2>6, <4>1 DEF Outstanding
        <5>2. b = q
          BY <1>1, <1>2, <4>1, <5>1 DEF PairingInv, WaitingOK, AwaitedOK
        <5> QED
          BY <1>1, <4>1, <5>2
      <4>2. a \in net' /\ \A b \in net' : b = a \/ b \in net
        BY <3>1
      <4> QED
        BY <3>2, <4>1, <4>2 DEF Telling
    <3>5. Telling(m, q.from)' = {}
      BY <1>1, <1>2, <1>3, <3>1, <3>2 DEF Telling, Outstanding
    <3>6. ASSUME NEW x \in Machine, NEW y \in Machine, x # y, {x, y} \notin torn'
          PROVE  Agreed(x, y)'
      <4>1. CASE x = q.from /\ y = m
        <5>1. Id(x)' = q.id
          BY <1>1, <1>2, <4>1 DEF Id
        <5>2. reg'[y].secret[Id(x)'] = a.secret
          BY <1>1, <2>3, <3>2, <4>1, <5>1
        <5>3. Telling(x, y)' = {a}
          BY <3>4, <4>1
        <5> QED
          BY <5>2, <5>3 DEF Agreed
      <4>2. CASE x = m /\ y = q.from
        <5>1. Telling(x, y)' = {} /\ Telling(y, x)' # {}
          BY <3>4, <3>5, <4>2
        <5> QED
          BY <5>1 DEF Agreed
      <4>3. CASE {x, y} # {m, q.from}
        <5>1. {x, y} \notin torn
          BY <3>3, <3>6, <4>3
        <5>2. ~(x = m /\ y = q.from) /\ ~(y = m /\ x = q.from)
          BY <4>3
        <5>3. Telling(x, y)' = Telling(x, y) /\ Telling(y, x)' = Telling(y, x)
          BY <1>1, <3>1, <3>2, <5>2 DEF Telling
        <5> QED
          BY <2>5, <3>6, <4>3, <5>1, <5>3
      <4> QED
        BY <3>6, <4>1, <4>2, <4>3
    <3> QED
      BY <2>4, <3>6 DEF SecretsOK
  <2>7. CASE ~q.wanted
    <3>1. net' = net \ {q} /\ torn' = torn \cup {{m, q.from}}
      BY <1>5, <2>7 DEF Served
    <3>2. \A x, y \in Machine : Telling(x, y)' = Telling(x, y)
      BY <1>1, <3>1 DEF Telling
    <3>3. ASSUME NEW x \in Machine, NEW y \in Machine, x # y, {x, y} \notin torn'
          PROVE  Agreed(x, y)'
      <4>1. {x, y} # {m, q.from} /\ {x, y} \notin torn
        BY <3>1, <3>3
      <4> QED
        BY <2>5, <3>2, <3>3, <4>1
    <3> QED
      BY <2>4, <3>3 DEF SecretsOK
  <2> QED
    BY <2>6, <2>7
<1> QED
  BY <1>4, <1>5

\* A request is served.
LEMMA ServeStep ==
  ASSUME PairingInv, NEW m \in Machine, Serve(m)
  PROVE  PairingInv' /\ StepOnline /\ StepSticks
<1>1. PICK q, r : \E o \in BOOLEAN : Served(m, q, r, o)
  BY ServeEffect
<1>2. PICK ok \in BOOLEAN : Served(m, q, r, ok)
  BY <1>1
<1>3. /\ q \in net /\ q.type = "request" /\ q.to = m /\ call[m] = Idle
      /\ DOMAIN reg' = Machine /\ reg'[m] = r /\ \A p \in Machine \ {m} : reg'[p] = reg[p]
      /\ Serves(m, q, r)
      /\ DOMAIN inbound' = Machine /\ \A p \in Machine : DOMAIN inbound'[p] \subseteq AllIds
      /\ UNCHANGED <<clock, install, call>>
  BY <1>2 DEF Served
<1>4. /\ q.from \in Machine /\ q.from # m /\ q.id \in AllIds
      /\ Owner(q.id) = q.from /\ Issued(q.id)
      /\ q.me.addr = q.from /\ q.me.seen \in Nat /\ q.me.seen <= clock
  BY <1>3, Requests
<1>5. RowsGood(m, reg[m], spoken[m], clock)
  BY Types
<1>6. \/ r.rows = reg[m].rows /\ Registry(r) /\ spoken' = spoken
      \/ Meets(reg[m], q.id, q.me, r) /\ Heeds(spoken, m, r, q.id, q.me, spoken')
  BY <1>3, Types DEF Serves
<1>7. /\ RowsGood(m, r, spoken'[m], clock) /\ spoken' \in History
      /\ \A p \in Machine \ {m} : spoken'[p] = spoken[p]
      /\ Sticks(reg[m], r) /\ StaysLit(reg[m], r)
  <2>1. CASE r.rows = reg[m].rows /\ Registry(r) /\ spoken' = spoken
    <3>1. RowsGood(m, r, spoken'[m], clock)
      BY <1>5, <2>1 DEF RowsGood, RowGood, Known
    <3>2. Sticks(reg[m], r) /\ StaysLit(reg[m], r)
      BY <2>1, WritesStick
    <3> QED
      BY <2>1, <3>1, <3>2, Types
  <2>2. CASE Meets(reg[m], q.id, q.me, r) /\ Heeds(spoken, m, r, q.id, q.me, spoken')
    <3>1. RowsGood(m, r, spoken'[m], clock)
      BY <1>4, <2>2, HeededGood
    <3>2. Sticks(reg[m], r) /\ StaysLit(reg[m], r)
      BY <2>2, WritesStick
    <3> QED
      BY <2>2, <3>1, <3>2 DEF Heeds
  <2> QED
    BY <1>6, <2>1, <2>2
<1>8. TypesOK'
  BY <1>3, <1>7, Types DEF TypesOK, Id
<1>9. MessagesOK' /\ WaitingOK'
  BY <1>2, ServeMessages
<1>10. RowsOK'
  <2>1. \A p \in Machine : RowsGood(p, reg'[p], spoken'[p], clock)
    BY <1>3, <1>7, Types
  <2> QED
    BY <1>3, <2>1 DEF RowsOK, RowsGood, RowGood, Issued, Current, Id
<1>11. CodesOK'
  <2>1. CASE DOMAIN r.codes = DOMAIN reg[m].codes /\ joins' = joins
    BY <1>3, <2>1, SameCodes DEF PairingInv
  <2>2. CASE /\ DOMAIN r.codes = DOMAIN reg[m].codes \ {q.code}
             /\ q.code \in DOMAIN reg[m].codes
             /\ joins' = joins \cup {[code |-> q.code, n |-> q.n]}
    <3>1. PICK j : j = [code |-> q.code, n |-> q.n]
      OBVIOUS
    <3>2. j.code = q.code /\ joins' = joins \cup {j}
      BY <2>2, <3>1
    <3> QED
      BY <1>3, <2>2, <3>2 DEF PairingInv, CodesOK
  <2> QED
    BY <1>3, <2>1, <2>2 DEF Serves
<1>12. SecretsOK'
  BY <1>2, ServeSecrets
<1>13. StepOnline /\ StepSticks
  BY <1>3, <1>7, OthersStay
<1> QED
  BY <1>8, <1>9, <1>10, <1>11, <1>12, <1>13 DEF PairingInv

\* The answer to a call reaches the machine that made it.
Finished(m, a, r) ==
    /\ a \in net /\ a.type = "response" /\ a.to = m /\ net' = net \ {a}
    /\ call' = [call EXCEPT ![m] = Idle]
    /\ DOMAIN reg' = Machine /\ reg'[m] = r /\ \A p \in Machine \ {m} : reg'[p] = reg[p]
    /\ DOMAIN inbound' = Machine /\ \A p \in Machine : DOMAIN inbound'[p] \subseteq AllIds
    /\ a.ok => /\ Shares(reg[m], call[m].peer, a.secret, r) /\ r.codes = reg[m].codes
               /\ torn' = IF a.id # call[m].peer THEN torn \cup {{m, a.from}} ELSE torn
    /\ ~a.ok => r = reg[m] /\ torn' = torn
    /\ RowsGood(m, r, spoken'[m], clock) /\ spoken' \in History
    /\ \A p \in Machine \ {m} : spoken'[p] = spoken[p]
    /\ Sticks(reg[m], r) /\ StaysLit(reg[m], r)
    /\ UNCHANGED <<clock, install, joins>>

\* Who gets an answer waits for it, and from nobody else.
LEMMA Answered ==
  ASSUME PairingInv, NEW m \in Machine, NEW a \in net, a.type = "response", a.to = m
  PROVE  /\ call[m] # Idle /\ call[m].peer \in AllIds /\ Issued(call[m].peer)
         /\ a.from \in Machine /\ a.from # m /\ Owner(call[m].peer) = a.from
         /\ \A y \in net : Outstanding(y, m) => y = a
         /\ \A y \in net : ~(y.type = "response" /\ y.from = m /\ y.to = a.from)
<1>1. Outstanding(a, m)
  BY DEF Outstanding
<1>2. a.from \in Machine /\ a.from # m
  BY Requests
<1>3. /\ call[m] # Idle /\ Owner(call[m].peer) = a.from
      /\ \A y \in net : Outstanding(y, m) => y = a
  BY <1>1, <1>2 DEF PairingInv, WaitingOK, AwaitedOK
<1>4. call[m] \in [kind : Kind, peer : AllIds]
  BY <1>3, Types DEF TypesOK
<1>5. Issued(call[m].peer)
  BY <1>3 DEF PairingInv, WaitingOK, CallsOK
<1>6. \A y \in net : ~(y.type = "response" /\ y.from = m /\ y.to = a.from)
  BY DEF PairingInv, WaitingOK, AnswersOK
<1> QED
  BY <1>2, <1>3, <1>4, <1>5, <1>6

\* What an answer does to the registry.
LEMMA FinishEffect ==
  ASSUME PairingInv, NEW m \in Machine, Finish(m)
  PROVE  \E a, r : Finished(m, a, r)
<1>1. PICK a \in net :
        LET c == call[m]
            met == RefreshPeer(AbsorbSecret(reg[m], c.peer, a.secret), a.id, a.me)
            paired == SetPaired(met, c.peer)
        IN  /\ a.type = "response" /\ a.to = m
            /\ net' = net \ {a}
            /\ call' = [call EXCEPT ![m] = Idle]
            /\ reg' = [reg EXCEPT ![m] = IF ~a.ok THEN @
                                         ELSE IF c.kind = "request" THEN met
                                         ELSE paired]
            /\ inbound' = [inbound EXCEPT ![m] =
                               IF a.ok /\ c.kind = "confirm" THEN Drop(@, {c.peer})
                               ELSE @]
            /\ torn' = IF a.ok /\ a.id # c.peer THEN torn \cup {{m, a.from}} ELSE torn
            /\ spoken' = IF a.ok THEN Met(spoken, m, reg'[m], a.id, a.me) ELSE spoken
            /\ UNCHANGED <<clock, install, events, joins>>
  BY DEF Finish
<1>2. PICK peer, met, paired :
        /\ peer = call[m].peer
        /\ met = RefreshPeer(AbsorbSecret(reg[m], peer, a.secret), a.id, a.me)
        /\ paired = SetPaired(met, peer)
  OBVIOUS
<1>3. /\ a.type = "response" /\ a.to = m /\ net' = net \ {a}
      /\ call' = [call EXCEPT ![m] = Idle]
      /\ reg' = [reg EXCEPT ![m] = IF ~a.ok THEN reg[m]
                                   ELSE IF call[m].kind = "request" THEN met ELSE paired]
      /\ inbound' = [inbound EXCEPT ![m] =
                         IF a.ok /\ call[m].kind = "confirm" THEN Drop(inbound[m], {peer})
                         ELSE inbound[m]]
      /\ torn' = IF a.ok /\ a.id # peer THEN torn \cup {{m, a.from}} ELSE torn
      /\ spoken' = IF a.ok THEN Met(spoken, m, reg'[m], a.id, a.me) ELSE spoken
      /\ UNCHANGED <<clock, install, joins>>
  BY <1>1, <1>2
<1>4. /\ peer \in AllIds /\ Issued(peer) /\ a.from \in Machine /\ a.from # m
      /\ Owner(peer) = a.from
  BY <1>2, <1>3, Answered
<1>5. /\ a.id = Id(a.from) /\ a.id \in AllIds /\ Owner(a.id) = a.from /\ Issued(a.id)
      /\ a.me \in Device /\ a.me.addr = a.from /\ a.me.seen \in Nat /\ a.me.seen <= clock
  BY Requests
<1>6. /\ DOMAIN reg = Machine /\ DOMAIN inbound = Machine /\ Registry(reg[m])
      /\ RowsGood(m, reg[m], spoken[m], clock) /\ spoken \in History
      /\ \A p \in Machine : DOMAIN inbound[p] \subseteq AllIds
  BY Types DEF TypesOK
<1>7. PICK r : r = IF ~a.ok THEN reg[m] ELSE IF call[m].kind = "request" THEN met ELSE paired
  OBVIOUS
<1>8. reg' = [reg EXCEPT ![m] = r]
  BY <1>3, <1>7
<1>9. DOMAIN reg' = Machine /\ reg'[m] = r /\ \A p \in Machine \ {m} : reg'[p] = reg[p]
  BY <1>6, <1>8
<1>10. DOMAIN inbound' = Machine /\ \A p \in Machine : DOMAIN inbound'[p] \subseteq AllIds
  <2>1. DOMAIN Drop(inbound[m], {peer}) \subseteq DOMAIN inbound[m]
    BY DEF Drop, Restrict
  <2> QED
    BY <1>3, <1>6, <2>1
<1>11. CASE ~a.ok
  <2>1. r = reg[m]
    BY <1>7, <1>11
  <2>2. torn' = torn /\ spoken' = spoken
    BY <1>3, <1>11
  <2>3. Sticks(reg[m], r) /\ StaysLit(reg[m], r)
    BY <2>1, WritesStick
  <2> QED
    BY <1>3, <1>6, <1>9, <1>10, <1>11, <2>1, <2>2, <2>3 DEF Finished
<1>12. CASE a.ok
  <2>1. Meets(reg[m], a.id, a.me, met) /\ Shares(reg[m], peer, a.secret, met) /\ met.codes = reg[m].codes
    BY <1>2, <1>4, <1>5, <1>6, AnswerEffect
  <2>2. Registry(met)
    BY <2>1 DEF Meets
  <2>3. PairsWith(met, peer, paired)
    BY <1>2, <2>2, SetPairedEffect
  <2>4. DOMAIN paired.rows = DOMAIN met.rows /\ paired.secret = met.secret /\ paired.codes = met.codes
    BY <2>3 DEF PairsWith, Updates
  <2>5. /\ r = met \/ r = paired
        /\ DOMAIN r.rows = DOMAIN met.rows /\ r.secret = met.secret /\ r.codes = met.codes
    BY <1>7, <1>12, <2>4
  <2>6. Heeds(spoken, m, r, a.id, a.me, spoken')
    <3>1. Known(r, a.id)
      BY <2>1, <2>5 DEF Meets, Known
    <3>2. spoken' = Met(spoken, m, r, a.id, a.me)
      BY <1>3, <1>9, <1>12
    <3> QED
      BY <1>5, <1>6, <3>1, <3>2, Meetings
  <2>7. Heeds(spoken, m, met, a.id, a.me, spoken')
    BY <2>5, <2>6 DEF Heeds
  <2>8. RowsGood(m, met, spoken'[m], clock)
    BY <1>4, <1>5, <2>1, <2>7, HeededGood
  <2>9. RowsGood(m, paired, spoken'[m], clock)
    <3>1. ASSUME Current(peer)
          PROVE  ~met.rows[peer].isSelf
      <4>1. peer = a.id
        BY <1>4, <1>5, <3>1 DEF Current
      <4> QED
        BY <2>1, <4>1 DEF Meets
    <3> QED
      BY <2>3, <2>8, <3>1, PairsGood
  <2>10. Sticks(reg[m], met) /\ StaysLit(reg[m], met) /\ Sticks(met, paired) /\ StaysLit(met, paired)
    BY <2>1, <2>3, WritesStick
  <2>11. Sticks(reg[m], paired) /\ StaysLit(reg[m], paired)
    BY <2>10, StickOn
  <2>12. RowsGood(m, r, spoken'[m], clock) /\ Sticks(reg[m], r) /\ StaysLit(reg[m], r)
    BY <2>5, <2>8, <2>9, <2>10, <2>11
  <2>13. Shares(reg[m], call[m].peer, a.secret, r)
    BY <1>2, <2>1, <2>5 DEF Shares
  <2>14. spoken' \in History /\ \A p \in Machine \ {m} : spoken'[p] = spoken[p]
    BY <2>6 DEF Heeds
  <2>15. /\ a.ok => /\ Shares(reg[m], call[m].peer, a.secret, r) /\ r.codes = reg[m].codes
                    /\ torn' = IF a.id # call[m].peer THEN torn \cup {{m, a.from}} ELSE torn
         /\ ~a.ok => r = reg[m] /\ torn' = torn
    <3>1. r.codes = reg[m].codes
      BY <2>1, <2>5
    <3>2. torn' = IF a.id # call[m].peer THEN torn \cup {{m, a.from}} ELSE torn
      BY <1>2, <1>3, <1>12
    <3> QED
      BY <1>12, <2>13, <3>1, <3>2
  <2>16. /\ a.type = "response" /\ a.to = m /\ net' = net \ {a}
         /\ call' = [call EXCEPT ![m] = Idle] /\ UNCHANGED <<clock, install, joins>>
    BY <1>3
  <2>17. Finished(m, a, r)
    BY <1>9, <1>10, <2>12, <2>14, <2>15, <2>16 DEF Finished
  <2> QED
    BY <2>17
<1> QED
  BY <1>11, <1>12

\* The secrets after an answer: what it brings is what the other side stored,
\* unless it answers under another id than the one that was called.
LEMMA FinishSecrets ==
  ASSUME PairingInv, NEW m \in Machine, NEW a, NEW r, Finished(m, a, r)
  PROVE  SecretsOK'
<1>1. /\ a \in net /\ a.type = "response" /\ a.to = m /\ net' = net \ {a}
      /\ reg'[m] = r /\ \A p \in Machine \ {m} : reg'[p] = reg[p]
      /\ UNCHANGED install
  BY DEF Finished
<1>2. PICK p \in Machine : p = a.from /\ p # m
  BY <1>1, Requests
<1>3. /\ call[m].peer \in AllIds /\ Issued(call[m].peer) /\ Owner(call[m].peer) = p
      /\ \A y \in net : Outstanding(y, m) => y = a
      /\ \A y \in net : ~(y.type = "response" /\ y.from = m /\ y.to = p)
  BY <1>1, <1>2, Answered
<1>4. CASE ~a.ok
  <2>1. (\A o \in Machine : reg'[o].secret = reg[o].secret) /\ torn' = torn
    BY <1>1, <1>4 DEF Finished
  <2>2. \A x, y \in Machine : Telling(x, y)' = Telling(x, y)
    BY <1>1, <1>4 DEF Telling
  <2> QED
    BY <1>1, <2>1, <2>2, SameSecrets DEF PairingInv
<1>5. CASE a.ok
  <2>1. Shares(reg[m], call[m].peer, a.secret, r)
    BY <1>5 DEF Finished
  <2>2. torn' = IF a.id # call[m].peer THEN torn \cup {{m, p}} ELSE torn
    BY <1>2, <1>5 DEF Finished
  <2>3. /\ DOMAIN r.secret = DOMAIN reg[m].secret \cup {call[m].peer}
        /\ r.secret[call[m].peer] = a.secret
    BY <2>1 DEF Shares
  <2>4. \A x \in Machine : \A id \in DOMAIN reg'[x].secret : Issued(id)'
    BY <1>1, <1>3, <2>3 DEF PairingInv, SecretsOK, Issued
  <2>5. Telling(m, p)' = {} /\ Telling(p, m)' = {} /\ a \in Telling(m, p)
    <3>1. \A y \in Telling(m, p)' : Outstanding(y, m) /\ y \in net /\ y # a
      BY <1>1 DEF Telling, Outstanding
    <3>2. \A y \in Telling(p, m)' : y \in net /\ y.type = "response" /\ y.from = m /\ y.to = p
      BY <1>1 DEF Telling
    <3> QED
      BY <1>1, <1>2, <1>3, <1>5, <3>1, <3>2 DEF Telling
  <2>6. ASSUME {m, p} \notin torn', Id(p) \in DOMAIN reg'[m].secret, Id(m) \in DOMAIN reg'[p].secret
        PROVE  reg'[m].secret[Id(p)] = reg'[p].secret[Id(m)]
    <3>1. {m, p} \notin torn /\ a.id = call[m].peer
      BY <2>2, <2>6
    <3>2. a.id = Id(p)
      BY <1>1, <1>2, Requests
    <3>3. reg'[m].secret[Id(p)] = a.secret
      BY <1>1, <2>3, <3>1, <3>2
    <3>4. Agreed(m, p)
      BY <1>2, <3>1 DEF PairingInv, SecretsOK
    <3>5. reg[p].secret[Id(m)] = a.secret
      BY <1>1, <1>2, <2>5, <2>6, <3>4 DEF Agreed
    <3> QED
      BY <1>1, <1>2, <3>3, <3>5
  <2>7. ASSUME NEW x \in Machine, NEW y \in Machine, x # y, {x, y} \notin torn'
        PROVE  Agreed(x, y)'
    <3>1. CASE x = m /\ y = p
      <4>1. /\ Id(x)' = Id(m) /\ Id(y)' = Id(p)
            /\ Telling(x, y)' = {} /\ {m, p} \notin torn'
        BY <1>1, <2>5, <2>7, <3>1 DEF Id
      <4> QED
        BY <2>6, <3>1, <4>1 DEF Agreed
    <3>2. CASE x = p /\ y = m
      <4>1. {x, y} = {m, p}
        BY <3>2
      <4>2. /\ Id(x)' = Id(p) /\ Id(y)' = Id(m)
            /\ Telling(x, y)' = {} /\ {m, p} \notin torn'
        BY <1>1, <2>5, <2>7, <3>2, <4>1 DEF Id
      <4> QED
        BY <2>6, <3>2, <4>2 DEF Agreed
    <3>3. CASE {x, y} # {m, p}
      <4>1. {x, y} \notin torn
        BY <2>2, <2>7, <3>3
      <4>2. ~(x = m /\ y = p) /\ ~(y = m /\ x = p)
        BY <3>3
      <4>3. Telling(x, y)' = Telling(x, y) /\ Telling(y, x)' = Telling(y, x)
        BY <1>1, <1>2, <4>2 DEF Telling
      <4> QED
        BY <1>1, <1>3, <2>1, <2>7, <3>3, <4>1, <4>3, OthersAgree
    <3> QED
      BY <2>7, <3>1, <3>2, <3>3
  <2> QED
    BY <2>4, <2>7 DEF SecretsOK
<1> QED
  BY <1>4, <1>5

\* An answer is taken.
LEMMA FinishStep ==
  ASSUME PairingInv, NEW m \in Machine, Finish(m)
  PROVE  PairingInv' /\ StepOnline /\ StepSticks
<1>1. PICK a, r : Finished(m, a, r)
  BY FinishEffect
<1>2. /\ a \in net /\ a.type = "response" /\ a.to = m /\ net' = net \ {a}
      /\ call' = [call EXCEPT ![m] = Idle]
      /\ DOMAIN reg' = Machine /\ reg'[m] = r /\ \A p \in Machine \ {m} : reg'[p] = reg[p]
      /\ DOMAIN inbound' = Machine /\ \A p \in Machine : DOMAIN inbound'[p] \subseteq AllIds
      /\ RowsGood(m, r, spoken'[m], clock) /\ spoken' \in History
      /\ \A p \in Machine \ {m} : spoken'[p] = spoken[p]
      /\ Sticks(reg[m], r) /\ StaysLit(reg[m], r)
      /\ UNCHANGED <<clock, install, joins>>
  BY <1>1 DEF Finished
<1>3. r.codes = reg[m].codes
  BY <1>1 DEF Finished
<1>4. call'[m] = Idle /\ \A p \in Machine \ {m} : call'[p] = call[p]
  BY <1>2, Types DEF TypesOK
<1>5. TypesOK'
  <2>1. call' \in [Machine -> {Idle} \cup [kind : Kind, peer : AllIds]]
    BY <1>2, Types DEF TypesOK
  <2> QED
    BY <1>2, <2>1, Types DEF TypesOK, Id
<1>6. MessagesOK'
  BY <1>2 DEF PairingInv, MessagesOK, Id
<1>7. WaitingOK'
  <2>1. \A p \in Machine : call'[p] # Idle =>
           IssuedUpTo(install', call'[p].peer) /\ Owner(call'[p].peer) # p
    BY <1>2, <1>4 DEF PairingInv, WaitingOK, CallsOK, Issued
  <2>2. ASSUME NEW y \in net', NEW p \in Machine, Outstanding(y, p)
        PROVE  /\ call'[p] # Idle
               /\ Owner(call'[p].peer) = IF y.from = p THEN y.to ELSE y.from
               /\ \A z \in net' : Outstanding(z, p) => y = z
    <3>1. y \in net /\ y # a
      BY <1>2, <2>2
    <3>2. p # m
      BY <1>2, <2>2, <3>1, Answered
    <3> QED
      BY <1>2, <1>4, <2>2, <3>1, <3>2 DEF PairingInv, WaitingOK, AwaitedOK
  <2>3. \A y, z \in net' : ~(/\ y.type = "response" /\ z.type = "response"
                             /\ y.from = z.to /\ y.to = z.from)
    BY <1>2 DEF PairingInv, WaitingOK, AnswersOK
  <2>4. \A y, p : Outstanding(y, p)' <=> Outstanding(y, p)
    BY DEF Outstanding
  <2> QED
    BY <2>1, <2>2, <2>3, <2>4 DEF WaitingOK, CallsOK, AwaitedOK, AnswersOK, Issued
<1>8. RowsOK'
  <2>1. \A p \in Machine : RowsGood(p, reg'[p], spoken'[p], clock)
    BY <1>2, Types
  <2> QED
    BY <1>2, <2>1 DEF RowsOK, RowsGood, RowGood, Issued, Current, Id
<1>9. CodesOK'
  <2>1. \A p \in Machine : DOMAIN reg'[p].codes \subseteq DOMAIN reg[p].codes
    BY <1>2, <1>3
  <2> QED
    BY <1>2, <2>1, SameCodes DEF PairingInv
<1>10. SecretsOK'
  BY <1>1, FinishSecrets
<1>11. StepOnline /\ StepSticks
  BY <1>2, OthersStay
<1> QED
  BY <1>5, <1>6, <1>7, <1>8, <1>9, <1>10, <1>11 DEF PairingInv

\* An installation has an id that nobody has heard of.
LEMMA NewId ==
  ASSUME PairingInv, NEW m \in Machine, install[m] < Len(Ids[m]),
         install' = [install EXCEPT ![m] = @ + 1]
  PROVE  /\ install' \in [Machine -> Nat] /\ \A p \in Machine : install'[p] \in 1..Len(Ids[p])
         /\ \A p \in Machine \ {m} : Id(p)' = Id(p)
         /\ Owner(Id(m)') = m /\ ~Issued(Id(m)')
         /\ \A id \in AllIds : Issued(id) => IssuedUpTo(install', id)
<1>1. /\ install \in [Machine -> Nat] /\ \A p \in Machine : install[p] \in 1..Len(Ids[p])
      /\ install'[m] = install[m] + 1 /\ \A p \in Machine \ {m} : install'[p] = install[p]
      /\ install' \in [Machine -> Nat]
  BY Types DEF TypesOK
<1>2. /\ \A p \in Machine : Len(Ids[p]) \in Nat /\ DOMAIN Ids[p] = 1..Len(Ids[p])
      /\ install[m] \in Nat /\ install[m] >= 1
  BY <1>1, Owners
<1>3. install[m] + 1 \in 1..Len(Ids[m])
  BY <1>1, <1>2
<1>4. \A p \in Machine : install'[p] \in 1..Len(Ids[p])
  BY <1>1, <1>3
<1>5. \A p \in Machine \ {m} : Id(p)' = Id(p)
  BY <1>1 DEF Id
<1>6. PICK new : new = Ids[m][install[m] + 1] /\ Id(m)' = new
  BY <1>1 DEF Id
<1>7. new \in AllIds /\ Owner(new) = m
  BY <1>3, <1>6, Owners
<1>8. ~Issued(new)
  <2>1. SUFFICES ASSUME NEW i \in 1..install[m], Ids[m][i] = new
                 PROVE  FALSE
    BY <1>7 DEF Issued, IssuedUpTo
  <2>2. i \in 1..Len(Ids[m])
    BY <1>1, <1>2
  <2>3. i = install[m] + 1
    BY <1>2, <1>3, <1>6, <2>1, <2>2, PairingAssumption
  <2> QED
    BY <1>2, <2>3
<1>9. ASSUME NEW id \in AllIds, Issued(id)
      PROVE  IssuedUpTo(install', id)
  <2>1. Owner(id) \in Machine
    BY Owners
  <2>2. PICK i \in 1..install[Owner(id)] : Ids[Owner(id)][i] = id
    BY <1>9 DEF Issued, IssuedUpTo
  <2>3. install[Owner(id)] \in Nat /\ install'[Owner(id)] \in Nat
        /\ install[Owner(id)] <= install'[Owner(id)]
    BY <1>1, <1>2, <2>1
  <2>4. i \in 1..install'[Owner(id)]
    BY <2>3
  <2> QED
    BY <2>2, <2>4 DEF IssuedUpTo
<1> QED
  BY <1>1, <1>4, <1>5, <1>6, <1>7, <1>8, <1>9

\* A machine that is installed again has nothing and is called by nobody; what
\* others have of it goes by an id that is no longer its own.
LEMMA ReinstallStep ==
  ASSUME PairingInv, NEW m \in Machine, Reinstall(m)
  PROVE  PairingInv' /\ StepOnline /\ \A p \in Machine \ {m} : reg'[p] = reg[p]
<1>1. /\ install[m] < Len(Ids[m]) /\ install' = [install EXCEPT ![m] = @ + 1]
      /\ reg' = [reg EXCEPT ![m] = EmptyRegistry]
      /\ inbound' = [inbound EXCEPT ![m] = <<>>]
      /\ call' = [call EXCEPT ![m] = Idle]
      /\ net' = {q \in net : m \notin {q.from, q.to}}
      /\ torn' = torn \cup {{q.from, q.to} : q \in {x \in net : m \in {x.from, x.to}}}
      /\ spoken' = [spoken EXCEPT ![m] = Silence]
      /\ UNCHANGED <<clock, joins>>
  BY DEF Reinstall
<1>2. /\ install' \in [Machine -> Nat] /\ \A p \in Machine : install'[p] \in 1..Len(Ids[p])
      /\ \A p \in Machine \ {m} : Id(p)' = Id(p)
      /\ Owner(Id(m)') = m /\ ~Issued(Id(m)')
      /\ \A id \in AllIds : Issued(id) => IssuedUpTo(install', id)
  BY <1>1, NewId
<1>3. /\ DOMAIN reg' = Machine /\ reg'[m] = EmptyRegistry
      /\ \A p \in Machine \ {m} : reg'[p] = reg[p]
      /\ DOMAIN inbound' = Machine /\ \A p \in Machine : DOMAIN inbound'[p] \subseteq AllIds
      /\ call'[m] = Idle /\ \A p \in Machine \ {m} : call'[p] = call[p]
      /\ call' \in [Machine -> {Idle} \cup [kind : Kind, peer : AllIds]]
      /\ spoken'[m] = Silence /\ \A p \in Machine \ {m} : spoken'[p] = spoken[p]
  BY <1>1, Types DEF TypesOK, History
<1>4. /\ EmptyRegistry.rows = <<>> /\ EmptyRegistry.secret = <<>> /\ EmptyRegistry.codes = <<>>
      /\ DOMAIN EmptyRegistry.rows = {} /\ DOMAIN EmptyRegistry.secret = {}
      /\ DOMAIN EmptyRegistry.codes = {}
      /\ EmptyRegistry = [rows |-> EmptyRegistry.rows, secret |-> EmptyRegistry.secret,
                          heir |-> EmptyRegistry.heir, codes |-> EmptyRegistry.codes]
  BY DEF EmptyRegistry
<1>5. TypesOK'
  <2>1. Silence \in [AllIds -> Saying]
    BY DEF Silence, Saying
  <2>2. spoken' \in History
    BY <1>1, <2>1, Types DEF History
  <2> QED
    BY <1>1, <1>2, <1>3, <2>2, Types DEF TypesOK
<1>6. MessagesOK'
  BY <1>1, <1>2 DEF PairingInv, MessagesOK
<1>7. WaitingOK'
  <2>1. ASSUME NEW p \in Machine, call'[p] # Idle
        PROVE  IssuedUpTo(install', call'[p].peer) /\ Owner(call'[p].peer) # p
    <3>1. p # m /\ call'[p] = call[p]
      BY <1>3, <2>1
    <3>2. call[p].peer \in AllIds
      <4>1. call[p] \in [kind : Kind, peer : AllIds]
        BY <2>1, <3>1, Types DEF TypesOK
      <4> QED
        BY <4>1
    <3>3. Issued(call[p].peer) /\ Owner(call[p].peer) # p
      BY <2>1, <3>1 DEF PairingInv, WaitingOK, CallsOK
    <3> QED
      BY <1>2, <3>1, <3>2, <3>3
  <2>2. ASSUME NEW y \in net', NEW p \in Machine, Outstanding(y, p)
        PROVE  /\ call'[p] # Idle
               /\ Owner(call'[p].peer) = IF y.from = p THEN y.to ELSE y.from
               /\ \A z \in net' : Outstanding(z, p) => y = z
    <3>1. y \in net /\ p # m
      BY <1>1, <2>2 DEF Outstanding
    <3> QED
      BY <1>1, <1>3, <2>2, <3>1 DEF PairingInv, WaitingOK, AwaitedOK
  <2>3. \A y, z \in net' : ~(/\ y.type = "response" /\ z.type = "response"
                             /\ y.from = z.to /\ y.to = z.from)
    BY <1>1 DEF PairingInv, WaitingOK, AnswersOK
  <2>4. \A y, p : Outstanding(y, p)' <=> Outstanding(y, p)
    BY DEF Outstanding
  <2> QED
    BY <2>1, <2>2, <2>3, <2>4 DEF WaitingOK, CallsOK, AwaitedOK, AnswersOK, Issued
<1>8. RowsOK'
  <2>1. ASSUME NEW p \in Machine, p # m
        PROVE  RowsGood(p, reg[p], spoken[p], clock)'
    <3>1. Registry(reg[p]) /\ reg'[p] = reg[p] /\ spoken'[p] = spoken[p] /\ clock' = clock
      BY <1>1, <1>3, <2>1, Types
    <3>2. ASSUME NEW id \in AllIds
          PROVE  RowGood(p, reg[p], id, spoken[p][id], clock)'
      <4>1. RowGood(p, reg[p], id, spoken[p][id], clock)
        BY Types DEF RowsGood
      <4>2. CASE Known(reg[p], id)
        <5>1. /\ Owner(id) # p /\ Issued(id)
              /\ reg[p].rows[id].addr \in {Owner(id), "nobody"}
              /\ Current(id) /\ reg[p].rows[id].paired => ~reg[p].rows[id].isSelf
              /\ Attested(reg[p].rows[id], spoken[p][id], clock)
          BY <4>1, <4>2 DEF RowGood
        <5>2. id = Id(Owner(id))' => Current(id)
          <6>1. Owner(id) \in Machine
            BY Owners
          <6>2. id = Id(m)' => ~Issued(id)
            BY <1>2
          <6>3. CASE Owner(id) = m
            BY <5>1, <6>2, <6>3
          <6>4. CASE Owner(id) # m
            BY <1>2, <6>1, <6>4 DEF Current
          <6> QED
            BY <6>3, <6>4
        <5>3. IssuedUpTo(install', id)
          BY <1>2, <5>1
        <5> QED
          BY <3>1, <4>2, <5>1, <5>2, <5>3 DEF RowGood, Known, Issued, Current
      <4>3. CASE ~Known(reg[p], id)
        BY <3>1, <4>1, <4>3 DEF RowGood, Known
      <4> QED
        BY <4>2, <4>3
    <3> QED
      BY <3>1, <3>2 DEF RowsGood
  <2>2. RowsGood(m, reg[m], spoken[m], clock)'
    <3>1. Registry(EmptyRegistry) /\ \A id : ~Known(EmptyRegistry, id)
      BY <1>4 DEF Registry, Known
    <3>2. \A id \in AllIds : spoken'[m][id] = [mdnsAt |-> None, heardAt |-> None]
      BY <1>3 DEF Silence
    <3> QED
      BY <1>3, <3>1, <3>2 DEF RowsGood, RowGood
  <2> QED
    BY <2>1, <2>2 DEF RowsOK
<1>9. CodesOK'
  <2>1. \A p \in Machine : DOMAIN reg'[p].codes \subseteq DOMAIN reg[p].codes
    BY <1>3, <1>4
  <2> QED
    BY <1>1, <2>1, SameCodes DEF PairingInv
<1>10. SecretsOK'
  <2>1. ASSUME NEW x \in Machine, NEW id \in DOMAIN reg'[x].secret
        PROVE  Issued(id)'
    <3>1. x # m /\ reg'[x] = reg[x]
      BY <1>3, <1>4, <2>1
    <3>2. id \in AllIds
      BY <2>1, <3>1, Types DEF Registry
    <3>3. Issued(id)
      BY <2>1, <3>1 DEF PairingInv, SecretsOK
    <3> QED
      BY <1>2, <3>2, <3>3 DEF Issued
  <2>2. ASSUME NEW x \in Machine, NEW y \in Machine, x # y, {x, y} \notin torn'
        PROVE  Agreed(x, y)'
    <3>1. CASE x = m \/ y = m
      <4>1. Telling(x, y)' = {}
        BY <1>1, <3>1 DEF Telling
      <4>2. DOMAIN reg'[m].secret = {}
        BY <1>3, <1>4
      <4> QED
        BY <3>1, <4>1, <4>2 DEF Agreed
    <3>2. CASE x # m /\ y # m
      <4>1. /\ reg'[x] = reg[x] /\ reg'[y] = reg[y] /\ Id(x)' = Id(x) /\ Id(y)' = Id(y)
        BY <1>2, <1>3, <3>2
      <4>2. Telling(x, y)' = Telling(x, y) /\ Telling(y, x)' = Telling(y, x)
        BY <1>1, <3>2 DEF Telling
      <4>3. Agreed(x, y)
        BY <1>1, <2>2 DEF PairingInv, SecretsOK
      <4> QED
        BY <4>1, <4>2, <4>3 DEF Agreed
    <3> QED
      BY <3>1, <3>2
  <2> QED
    BY <2>1, <2>2 DEF SecretsOK
<1>11. StepOnline
  <2>1. \A p \in Machine : StaysOnline(reg[p], reg[p], clock)
    BY DEF StaysOnline
  <2>2. StaysOnline(reg[m], reg'[m], clock)
    BY <1>3, <1>4 DEF StaysOnline
  <2> QED
    BY <1>3, <2>1, <2>2 DEF StepOnline
<1> QED
  BY <1>3, <1>5, <1>6, <1>7, <1>8, <1>9, <1>10, <1>11 DEF PairingInv

-----------------------------------------------------------------------------
(* The invariant                                                           *)

\* A row of the start: the machine was announced by its id.
LEMMA FirstRow ==
  ASSUME NEW id \in AllIds, NEW row,
         row = RecordPeer(EmptyRegistry, id, Owner(id), "mdns", 0).rows[id]
  PROVE  /\ row \in Row /\ row.addr = Owner(id) /\ ~row.paired
         /\ Attested(row, [mdnsAt |-> 0, heardAt |-> 0], 0)
<1>1. PICK r : r = EmptyRegistry
  OBVIOUS
<1>2. Registry(r) /\ ~Known(r, id)
  BY <1>1 DEF EmptyRegistry, Registry, Known
<1>3. PICK u : u = RecordPeer(r, id, Owner(id), "mdns", 0)
  OBVIOUS
<1>4. Owner(id) \in Machine
  BY Owners
<1>5. Records(r, id, Owner(id), "mdns", 0, u)
  BY <1>2, <1>3, <1>4, RecordPeerEffect
<1>6. SourceWins(r, id, "mdns", 0)
  BY <1>2 DEF SourceWins
<1>7. /\ u.rows[id].addr = Owner(id) /\ u.rows[id].paired = FALSE /\ u.rows[id].isSelf = FALSE
      /\ u.rows[id].seen = 0 /\ u.rows[id].via = "mdns" /\ u.rows[id].viaAt = 0
      /\ Registry(u) /\ id \in DOMAIN u.rows
  BY <1>2, <1>5, <1>6 DEF Records
<1>8. row = u.rows[id] /\ row \in Row
  BY <1>1, <1>3, <1>7 DEF Registry
<1>9. PICK said : said = [mdnsAt |-> 0, heardAt |-> 0]
  OBVIOUS
<1>10. said.mdnsAt = 0 /\ said.heardAt = 0
  BY <1>9
<1>11. Attested(row, said, 0)
  BY <1>7, <1>8, <1>10, NullAssumption DEF Attested
<1> QED
  BY <1>7, <1>8, <1>9, <1>11

\* The invariant holds at first.
LEMMA InitInv == Init => PairingInv
<1> SUFFICES ASSUME Init PROVE PairingInv
  OBVIOUS
<1>1. /\ clock = 0 /\ install = [m \in Machine |-> 1] /\ inbound = [m \in Machine |-> <<>>]
      /\ call = [m \in Machine |-> Idle] /\ net = {} /\ joins = {} /\ torn = {}
      /\ spoken = [m \in Machine |-> [id \in AllIds |->
                       IF Known(reg[m], id) THEN [mdnsAt |-> 0, heardAt |-> 0]
                                            ELSE Silence[id]]]
  BY DEF Init
<1>2. MaxClock \in Nat
  BY PairingAssumption
<1>3. \A m \in Machine : install[m] = 1 /\ Id(m) = Ids[m][1] /\ Issued(Id(m)) /\ Current(Id(m))
                         /\ Owner(Id(m)) = m /\ Id(m) \in AllIds
  <2> TAKE m \in Machine
  <2>1. install[m] = 1 /\ Id(m) = Ids[m][1] /\ 1 \in 1..Len(Ids[m])
    BY <1>1, Owners DEF Id
  <2>2. Owner(Id(m)) = m /\ Id(m) \in AllIds
    BY <2>1, Owners
  <2>3. 1 \in 1..install[m]
    BY <2>1
  <2> QED
    BY <2>1, <2>2, <2>3 DEF Id, Issued, IssuedUpTo, Current
<1>4. /\ DOMAIN reg = Machine
      /\ \A m \in Machine :
            /\ Registry(reg[m]) /\ DOMAIN reg[m].secret = {} /\ DOMAIN reg[m].codes = {}
            /\ \A id \in DOMAIN reg[m].rows :
                  /\ id \in AllIds /\ Owner(id) # m /\ Issued(id)
                  /\ reg[m].rows[id].addr = Owner(id) /\ ~reg[m].rows[id].paired
                  /\ Attested(reg[m].rows[id], [mdnsAt |-> 0, heardAt |-> 0], 0)
  <2>1. /\ EmptyRegistry.rows = <<>> /\ EmptyRegistry.secret = <<>> /\ EmptyRegistry.codes = <<>>
        /\ Registry(EmptyRegistry)
    BY DEF EmptyRegistry, Registry
  <2>2. CASE reg = [m \in Machine |-> EmptyRegistry]
    BY <2>1, <2>2
  <2>3. CASE reg = [m \in Machine |->
                       LET met(ids) == [i \in ids |-> RecordPeer(EmptyRegistry, i,
                                            Owner(i), "mdns", 0).rows[i]]
                       IN  [EmptyRegistry EXCEPT
                               !.rows = met({Id(p) : p \in Machine \ {m}})]]
    <3>1. DOMAIN reg = Machine
      BY <2>3
    <3>2. ASSUME NEW m \in Machine
          PROVE  /\ Registry(reg[m]) /\ DOMAIN reg[m].secret = {} /\ DOMAIN reg[m].codes = {}
                 /\ \A id \in DOMAIN reg[m].rows :
                       /\ id \in AllIds /\ Owner(id) # m /\ Issued(id)
                       /\ reg[m].rows[id].addr = Owner(id) /\ ~reg[m].rows[id].paired
                       /\ Attested(reg[m].rows[id], [mdnsAt |-> 0, heardAt |-> 0], 0)
      <4>1. PICK ids : ids = {Id(p) : p \in Machine \ {m}}
        OBVIOUS
      <4>2. PICK rows : rows = [i \in ids |-> RecordPeer(EmptyRegistry, i, Owner(i), "mdns", 0).rows[i]]
        OBVIOUS
      <4>3. reg[m] = [EmptyRegistry EXCEPT !.rows = rows]
        BY <2>3, <4>1, <4>2
      <4>4. reg[m] = [rows |-> rows, secret |-> EmptyRegistry.secret,
                      heir |-> EmptyRegistry.heir, codes |-> EmptyRegistry.codes]
        BY <2>1, <4>3, RegistryFields
      <4>5. \A id \in ids : id \in AllIds /\ Owner(id) # m /\ Issued(id)
        BY <1>3, <4>1
      <4>6. \A id \in ids : /\ rows[id] \in Row /\ rows[id].addr = Owner(id) /\ ~rows[id].paired
                            /\ Attested(rows[id], [mdnsAt |-> 0, heardAt |-> 0], 0)
        BY <4>2, <4>5, FirstRow
      <4>7. DOMAIN rows = ids
        BY <4>2
      <4>8. Registry(reg[m])
        BY <2>1, <4>4, <4>5, <4>6, <4>7 DEF Registry
      <4> QED
        BY <2>1, <4>4, <4>5, <4>6, <4>7, <4>8
    <3> QED
      BY <3>1, <3>2
  <2> QED
    BY <2>2, <2>3 DEF Init
<1>5. \A m \in Machine, id \in AllIds :
         spoken[m][id] = IF Known(reg[m], id) THEN [mdnsAt |-> 0, heardAt |-> 0]
                         ELSE [mdnsAt |-> None, heardAt |-> None]
  BY <1>1 DEF Silence
<1>6. TypesOK
  <2>1. spoken \in History
    <3>1. [mdnsAt |-> 0, heardAt |-> 0] \in Saying /\ [mdnsAt |-> None, heardAt |-> None] \in Saying
      BY DEF Saying
    <3>2. \A id \in AllIds : Silence[id] = [mdnsAt |-> None, heardAt |-> None]
      BY DEF Silence
    <3> QED
      BY <1>1, <3>1, <3>2 DEF History
  <2>2. 1 \in Nat /\ 0 \in 0..MaxClock
    BY <1>2
  <2>3. \A m \in Machine : install[m] \in 1..Len(Ids[m])
    BY <1>3, Owners
  <2> QED
    BY <1>1, <1>4, <2>1, <2>2, <2>3 DEF TypesOK
<1>7. MessagesOK /\ AwaitedOK /\ AnswersOK
  BY <1>1 DEF MessagesOK, AwaitedOK, AnswersOK
<1>8. CallsOK
  BY <1>1 DEF CallsOK
<1>9. RowsOK
  <2>1. ASSUME NEW m \in Machine, NEW id \in AllIds
        PROVE  RowGood(m, reg[m], id, spoken[m][id], clock)
    BY <1>1, <1>4, <1>5 DEF RowGood, Known
  <2> QED
    BY <1>4, <2>1 DEF RowsOK, RowsGood
<1>10. CodesOK
  BY <1>1, <1>4 DEF CodesOK
<1>11. SecretsOK
  BY <1>1, <1>4 DEF SecretsOK, Agreed, Telling
<1> QED
  BY <1>6, <1>7, <1>8, <1>9, <1>10, <1>11 DEF PairingInv, WaitingOK

\* What the user does on one machine stays there.
LEMMA UserSteps ==
  ASSUME PairingInv, NEW m \in Machine, UserStep(m)
  PROVE  PairingInv' /\ StepOnline /\ \A p \in Machine \ {m} : reg'[p] = reg[p]
<1>1. PairingInv' /\ StepOnline
  BY CreateCodeStep, RemoveStep, ClearAllStep, PurgeStep, MergeStep, SetAliasStep, AddDeviceStep
     DEF UserStep
<1>2. \E r : reg' = [reg EXCEPT ![m] = r]
  BY DEF UserStep, CreateCode, Remove, ClearAll, Purge, Merge, SetAlias, AddDevice, Operation
<1>3. \A p \in Machine \ {m} : reg'[p] = reg[p]
  BY <1>2, Types DEF TypesOK
<1> QED
  BY <1>1, <1>3

\* Every step keeps the invariant, and marks nobody offline too early; it
\* unpairs nobody unless the user of the machine does, or installs it again.
LEMMA NextInv ==
  ASSUME PairingInv, Next
  PROVE  /\ PairingInv' /\ StepOnline
         /\ \A m \in Machine : ~UserStep(m) /\ ~Reinstall(m) => Sticks(reg[m], reg'[m])
<1> DEFINE Kept == /\ PairingInv' /\ StepOnline
                   /\ \A m \in Machine : ~UserStep(m) /\ ~Reinstall(m) => Sticks(reg[m], reg'[m])
<1>1. ASSUME PairingInv', StepOnline, StepSticks
      PROVE  Kept
  BY <1>1 DEF StepSticks
<1>2. ASSUME NEW m \in Machine, UserStep(m) \/ Reinstall(m), PairingInv', StepOnline,
             \A p \in Machine \ {m} : reg'[p] = reg[p]
      PROVE  Kept
  <2>1. \A p \in Machine : Sticks(reg[p], reg[p])
    BY DEF Sticks
  <2> QED
    BY <1>2, <2>1
<1>3. ASSUME Tick
      PROVE  Kept
  BY <1>1, <1>3, TickStep
<1>4. ASSUME NEW m \in Machine, NEW id \in AllIds, InitiatePair(m, id)
      PROVE  Kept
  BY <1>1, <1>4, CallStep DEF InitiatePair, Kind
<1>5. ASSUME NEW m \in Machine, NEW id \in AllIds, ConfirmPairWith(m, id)
      PROVE  Kept
  BY <1>1, <1>5, CallStep DEF ConfirmPairWith, Kind
<1>6. ASSUME NEW m \in Machine, NEW id \in AllIds, NEW c \in Code, JoinRemote(m, id, c)
      PROVE  Kept
  BY <1>1, <1>6, CallStep DEF JoinRemote, Kind
<1>7. ASSUME NEW m \in Machine, Serve(m)
      PROVE  Kept
  BY <1>1, <1>7, ServeStep
<1>8. ASSUME NEW m \in Machine, Finish(m)
      PROVE  Kept
  BY <1>1, <1>8, FinishStep
<1>9. ASSUME NEW m \in Machine, Timeout(m)
      PROVE  Kept
  BY <1>1, <1>9, TimeoutStep
<1>10. ASSUME NEW m \in Machine, Reinstall(m)
       PROVE  Kept
  BY <1>2, <1>10, ReinstallStep
<1>11. ASSUME NEW m \in Machine, NEW p \in Machine, NEW via \in {"mdns", "udp"},
              NEW addr \in {p, "nobody"}, Announce(m, p, via, addr)
       PROVE  Kept
  BY <1>1, <1>11, AnnounceStep
<1>12. ASSUME NEW m \in Machine, UserStep(m)
       PROVE  Kept
  BY <1>2, <1>12, UserSteps
<1>13. ASSUME NEW m \in Machine, SyncNow(m) \/ AutoSync(m)
       PROVE  Kept
  <2>1. PICK id \in Listed(reg[m]) : SyncTo(m, id)
    BY <1>13 DEF SyncNow, AutoSync
  <2> QED
    BY <1>1, <2>1, SyncStep
<1>14. ASSUME NEW m \in Machine, Probe(m)
       PROVE  Kept
  BY <1>1, <1>14, ProbeStep
<1> HIDE DEF Kept
<1>15. Acting \subseteq Machine
  BY PairingAssumption
<1>16. \/ Tick
       \/ \E m \in Machine :
             \/ \E id \in AllIds : \/ InitiatePair(m, id) \/ ConfirmPairWith(m, id)
                                   \/ \E c \in Code : JoinRemote(m, id, c)
             \/ Serve(m) \/ Finish(m) \/ Timeout(m) \/ Reinstall(m)
             \/ UserStep(m) \/ (SyncNow(m) \/ AutoSync(m)) \/ Probe(m)
       \/ \E m \in Machine, p \in Machine : \E via \in {"mdns", "udp"}, addr \in {p, "nobody"} :
             Announce(m, p, via, addr)
  <2>1. ASSUME NEW m \in Machine, NEW p \in Machine,
               \/ Announce(m, p, "mdns", p) \/ Announce(m, p, "mdns", "nobody")
               \/ Announce(m, p, "udp", p) \/ Announce(m, p, "udp", "nobody")
        PROVE  \E via \in {"mdns", "udp"}, addr \in {p, "nobody"} : Announce(m, p, via, addr)
    BY <2>1
  <2> QED
    BY <1>15, <2>1 DEF Next
<1>17. Kept
  <2>1. CASE Tick
    BY <1>3, <2>1
  <2>2. CASE \E m \in Machine, p \in Machine : \E via \in {"mdns", "udp"}, addr \in {p, "nobody"} :
                Announce(m, p, via, addr)
    BY <1>11, <2>2
  <2>3. ASSUME NEW m \in Machine, NEW id \in AllIds,
               \/ InitiatePair(m, id) \/ ConfirmPairWith(m, id) \/ \E c \in Code : JoinRemote(m, id, c)
        PROVE  Kept
    BY <1>4, <1>5, <1>6, <2>3
  <2>4. ASSUME NEW m \in Machine,
               \/ Serve(m) \/ Finish(m) \/ Timeout(m) \/ Reinstall(m)
               \/ UserStep(m) \/ (SyncNow(m) \/ AutoSync(m)) \/ Probe(m)
        PROVE  Kept
    BY <1>7, <1>8, <1>9, <1>10, <1>12, <1>13, <1>14, <2>4
  <2> QED
    BY <1>16, <2>1, <2>2, <2>3, <2>4
<1> QED
  BY <1>17 DEF Kept

\* The inductive invariant holds throughout.
THEOREM PairingInvariance == Spec => []PairingInv
<1>1. PairingInv /\ [Next]_vars => PairingInv'
  <2>1. CASE Next
    BY <2>1, NextInv
  <2>2. CASE UNCHANGED vars
    BY <2>2 DEF vars, PairingInv, TypesOK, MessagesOK, WaitingOK, CallsOK, AwaitedOK,
                AnswersOK, RowsOK, RowsGood, RowGood, CodesOK, SecretsOK, Agreed, Telling,
                Outstanding, Issued, Current, Id
  <2> QED
    BY <2>1, <2>2
<1> QED
  BY <1>1, InitInv, PTL DEF Spec

-----------------------------------------------------------------------------
(* The properties                                                          *)

\* A registry never holds its own machine, and ids are those of machines; who
\* waits for nothing has nothing on its way.
THEOREM PairingTypeCorrectness == Spec => []PairTypeOK
<1>1. PairingInv => PairTypeOK
  <2> SUFFICES ASSUME PairingInv PROVE PairTypeOK
    OBVIOUS
  <2>1. TypesOK
    BY Types
  <2>2. ASSUME NEW m \in Machine
        PROVE  /\ install[m] \in 1..Len(Ids[m])
               /\ Known(reg[m], Id(m)) = FALSE
               /\ DOMAIN reg[m].rows \subseteq AllIds
               /\ DOMAIN reg[m].secret \subseteq AllIds
               /\ DOMAIN inbound[m] \subseteq AllIds
    <3>1. Id(m) \in AllIds /\ Owner(Id(m)) = m
      BY <2>1, RunningIds
    <3>2. RowGood(m, reg[m], Id(m), spoken[m][Id(m)], clock) /\ Registry(reg[m])
      BY <3>1, Types DEF RowsGood
    <3>3. ~Known(reg[m], Id(m))
      BY <3>1, <3>2 DEF RowGood
    <3> QED
      BY <2>1, <3>2, <3>3 DEF TypesOK, Registry, Known
  <2>3. ASSUME NEW m \in Machine, call[m] = Idle
        PROVE  ~\E q \in net : \/ q.type = "request" /\ q.from = m /\ q.wanted
                               \/ q.type = "response" /\ q.to = m
    BY <2>3, NothingOutstanding DEF Outstanding
  <2> QED
    BY <2>1, <2>2, <2>3 DEF PairTypeOK, TypesOK
<1> QED
  BY <1>1, PairingInvariance, PTL

\* Whatever is asked, answered, given up or lost, two machines that no
\* handshake has torn apart have one secret: bodies can be opened.
THEOREM SecretsStayShared == Spec => []SecretsAgree
<1>1. PairingInv => SecretsAgree
  <2> SUFFICES ASSUME PairingInv, NEW m \in Machine, NEW p \in Machine,
                      {m, p} \notin torn, call[m] = Idle, call[p] = Idle,
                      Id(p) \in DOMAIN reg[m].secret, Id(m) \in DOMAIN reg[p].secret
               PROVE  reg[m].secret[Id(p)] = reg[p].secret[Id(m)]
    BY DEF SecretsAgree
  <2>1. CASE m = p
    BY <2>1
  <2>2. CASE m # p
    <3>1. Telling(m, p) = {} /\ Telling(p, m) = {}
      BY NothingOutstanding DEF Telling, Outstanding
    <3>2. Agreed(m, p)
      BY <2>2 DEF PairingInv, SecretsOK
    <3> QED
      BY <3>1, <3>2 DEF Agreed
  <2> QED
    BY <2>1, <2>2
<1> QED
  BY <1>1, PairingInvariance, PTL

\* Of all the requests that bring a pairing code, however late they are
\* served, one is let in.
THEOREM CodesAreSpent == Spec => []CodeJoinsOnce
<1>1. PairingInv => CodeJoinsOnce
  <2> SUFFICES ASSUME PairingInv, NEW c \in Code
               PROVE  Cardinality({j \in joins : j.code = c}) <= 1
    BY DEF CodeJoinsOnce
  <2>1. PICK uses : uses = {j \in joins : j.code = c}
    OBVIOUS
  <2>2. \A j, k \in uses : j = k
    BY <2>1 DEF PairingInv, CodesOK
  <2>3. Cardinality(uses) <= 1
    <3>1. CASE uses = {}
      BY <3>1, FS_EmptySet
    <3>2. CASE uses # {}
      <4>1. PICK j \in uses : TRUE
        BY <3>2
      <4>2. uses = {j}
        BY <2>2, <4>1
      <4>3. Cardinality({j}) = 1
        BY FS_Singleton
      <4>4. Cardinality(uses) = 1
        BY <4>2, <4>3
      <4> QED
        BY <4>4
    <3> QED
      BY <3>1, <3>2
  <2> QED
    BY <2>1, <2>3
<1> QED
  BY <1>1, PairingInvariance, PTL

\* A paired device is in the list: it is not taken for the machine itself.
THEOREM PairedIsShown == Spec => []PairedIsNotSelf
<1>1. PairingInv => PairedIsNotSelf
  <2> SUFFICES ASSUME PairingInv, NEW m \in Machine, NEW p \in Machine,
                      Known(reg[m], Id(p)), reg[m].rows[Id(p)].paired
               PROVE  ~reg[m].rows[Id(p)].isSelf
    BY DEF PairedIsNotSelf
  <2>1. Id(p) \in AllIds /\ Current(Id(p))
    BY Types, RunningIds
  <2>2. RowGood(m, reg[m], Id(p), spoken[m][Id(p)], clock)
    BY <2>1, Types DEF RowsGood
  <2> QED
    BY <2>1, <2>2 DEF RowGood
<1> QED
  BY <1>1, PairingInvariance, PTL

\* What the list offers to merge can be merged, in one direction only.
THEOREM OffersCanBeTaken == Spec => []MergeHintsHold
<1>1. PairingInv => MergeHintsHold
  <2> SUFFICES ASSUME PairingInv, NEW m \in Machine, NEW id \in Listed(reg[m]),
                      ~reg[m].rows[id].isSelf, NEW uid,
                      NEW o \in MergeCandidates(reg[m], id, uid)
               PROVE  /\ Mergeable(reg[m], o, id)
                      /\ reg[m].rows[id].paired => id \notin MergeCandidates(reg[m], o, uid)
    BY DEF MergeHintsHold
  <2>1. /\ o \in Listed(reg[m]) /\ o # id /\ reg[m].rows[o].paired /\ ~reg[m].rows[o].isSelf
        /\ reg[m].rows[id].paired => reg[m].rows[id].pairedAt > reg[m].rows[o].pairedAt
    BY DEF MergeCandidates, Candidates
  <2>2. reg[m].rows[id].pairedAt \in Nat /\ reg[m].rows[o].pairedAt \in Nat
    <3>1. reg[m].rows[id] \in Row /\ reg[m].rows[o] \in Row
      BY <2>1, Types DEF Registry, Listed
    <3> QED
      BY <3>1, RowFields
  <2>3. Mergeable(reg[m], o, id)
    BY <2>1 DEF Mergeable
  <2>4. ASSUME reg[m].rows[id].paired, id \in MergeCandidates(reg[m], o, uid)
        PROVE  FALSE
    <3>1. reg[m].rows[o].pairedAt > reg[m].rows[id].pairedAt
      BY <2>1, <2>4 DEF MergeCandidates
    <3> QED
      BY <2>1, <2>2, <2>4, <3>1
  <2> QED
    BY <2>3, <2>4
<1> QED
  BY <1>1, PairingInvariance, PTL

\* Only the user of a machine unpairs one of its devices.
THEOREM PairingsStay == Spec => PairingSticks
<1> DEFINE Step == \A m \in Machine : \A id \in DOMAIN reg[m].rows :
                      reg[m].rows[id].paired /\ ~UserStep(m) /\ ~Reinstall(m) =>
                          Known(reg'[m], id) /\ reg'[m].rows[id].paired
<1>1. PairingInv /\ [Next]_vars => [Step]_vars
  <2> SUFFICES ASSUME PairingInv, Next PROVE Step
    OBVIOUS
  <2>1. \A m \in Machine : ~UserStep(m) /\ ~Reinstall(m) => Sticks(reg[m], reg'[m])
    BY NextInv
  <2> QED
    BY <2>1 DEF Sticks, Known
<1> QED
  BY <1>1, PairingInvariance, PTL DEF Spec, PairingSticks

\* A broadcast overrules mDNS when mDNS has been silent for long, and only then.
THEOREM BroadcastsWait == Spec => MdnsHasTheWord
<1> DEFINE Step == \A m, p \in Machine : \A addr \in {p, "nobody"} :
                      Announce(m, p, "udp", addr) =>
                          LET said == spoken[m][Id(p)].mdnsAt
                          IN  reg'[m].rows[Id(p)].addr =
                                  IF said # None /\ clock - said < MdnsFresh
                                  THEN reg[m].rows[Id(p)].addr ELSE addr
<1>1. PairingInv /\ [Next]_vars => [Step]_vars
  <2> SUFFICES ASSUME PairingInv, NEW m \in Machine, NEW p \in Machine,
                      NEW addr \in {p, "nobody"}, Announce(m, p, "udp", addr)
               PROVE  reg'[m].rows[Id(p)].addr =
                          IF spoken[m][Id(p)].mdnsAt # None
                                /\ clock - spoken[m][Id(p)].mdnsAt < MdnsFresh
                          THEN reg[m].rows[Id(p)].addr ELSE addr
    OBVIOUS
  <2>1. Records(reg[m], Id(p), addr, "udp", clock, reg'[m])
    BY AnnounceStep
  <2>2. Id(p) \in AllIds
    BY Types, RunningIds
  <2>3. SourceWins(reg[m], Id(p), "udp", clock) <=>
           ~(spoken[m][Id(p)].mdnsAt # None /\ clock - spoken[m][Id(p)].mdnsAt < MdnsFresh)
    BY <2>2, Types, BroadcastWins
  <2>4. CASE SourceWins(reg[m], Id(p), "udp", clock)
    BY <2>1, <2>3, <2>4 DEF Records
  <2>5. CASE ~SourceWins(reg[m], Id(p), "udp", clock)
    BY <2>1, <2>3, <2>5 DEF Records, Alike
  <2> QED
    BY <2>4, <2>5
<1> QED
  BY <1>1, PairingInvariance, PTL DEF Spec, MdnsHasTheWord

\* A failed probe does not outvote a recent sign of life.
THEOREM HeardStaysOnline == Spec => HeardIsNotOffline
<1> DEFINE Step == \A m \in Machine : \A id \in DOMAIN reg[m].rows :
                      (/\ Known(reg'[m], id)
                       /\ reg[m].rows[id].online /\ ~reg'[m].rows[id].online
                       /\ reg'[m].rows[id].heir = None
                       /\ spoken[m][id].heardAt # None) =>
                          clock - spoken[m][id].heardAt >= OnlineGrace
<1>1. PairingInv /\ [Next]_vars => [Step]_vars
  <2> SUFFICES ASSUME PairingInv, Next, NEW m \in Machine, NEW id \in DOMAIN reg[m].rows,
                      Known(reg'[m], id), reg[m].rows[id].online, ~reg'[m].rows[id].online,
                      reg'[m].rows[id].heir = None, spoken[m][id].heardAt # None
               PROVE  clock - spoken[m][id].heardAt >= OnlineGrace
    OBVIOUS
  <2>1. reg[m].rows[id].seen + OnlineGrace <= clock
    BY NextInv DEF StepOnline, StaysOnline, Known
  <2>2. id \in AllIds /\ reg[m].rows[id] \in Row
    BY Types DEF Registry
  <2>3. RowGood(m, reg[m], id, spoken[m][id], clock) /\ spoken[m][id] \in Saying
    BY <2>2, Types DEF RowsGood
  <2>4. spoken[m][id].heardAt \in Nat /\ spoken[m][id].heardAt <= reg[m].rows[id].seen
    BY <2>3 DEF RowGood, Known, Attested, Saying
  <2>5. reg[m].rows[id].seen \in Nat /\ clock \in Nat /\ OnlineGrace \in Nat
    BY <2>2, RowFields, Types, DeviceTableAssumption
  <2> QED
    BY <2>1, <2>4, <2>5
<1> QED
  BY <1>1, PairingInvariance, PTL DEF Spec, HeardIsNotOffline
=============================================================================
