\* Two notes, two todos, two lists, two subtasks to a todo: every route and
\* every batch instruction, six writes long.
SPECIFICATION Spec
CONSTANTS
    Content = {c1, c2}
    TagSet <- MCTagSet
    Text = {x1}
    Due = {1}
    ListName = {"l"}
    Device = {None}
    None = None
    MaxNotes = 2
    MaxNoteVersion = 4
    MaxRelations = 1
    MaxTodos = 2
    MaxTodoVersion = 6
    MaxLists = 2
    MaxSubtasks = 2
    MaxWrites = 6
INVARIANTS
    InboxTypeOK
    NoContentLost
    VersionsNameOneRevision
    CompletedHasTime
    
    
    
PROPERTIES
    ChangesTakeNewVersion
CHECK_DEADLOCK FALSE
