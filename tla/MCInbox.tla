------------------------------ MODULE MCInbox ------------------------------
(* Inbox on a small instance: the tags, which are sequences of segments. *)
EXTENDS Inbox, TLC

Work == <<"job", "work">>
MCTagSet == {{}, {<<"job">>}, {Work, <<"job", "rest">>}}
=============================================================================
