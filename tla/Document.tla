------------------------------ MODULE Document ------------------------------
(***************************************************************************)
(* What the main window promises of the configuration, as of any document  *)
(* that is edited: a text, what counts as saved of it, and files.  A file  *)
(* changes only when the text is saved in it; what counts as saved changes *)
(* only along with the text or a file; and the window closes, unless the   *)
(* user drops the changes, when all of the text counts as saved.           *)
(***************************************************************************)
CONSTANTS
    Texts,       \* what a document may be
    New,         \* a new one
    Files, Untitled, Unreadable

VARIABLES
    text,        \* the document
    saved,       \* what counts as saved
    name,        \* its file
    files,       \* what each file holds
    state        \* "open", "closed", "dropped" with its changes, "aborted"

vars == <<text, saved, name, files, state>>

Init ==
    /\ text = New /\ saved = New /\ name = Untitled
    /\ files \in [Files -> Texts \cup {Unreadable}]
    /\ state = "open"

Becomes(t, f) == text' = t /\ saved' = t /\ name' = f

Edit == /\ text' \in Texts
        /\ UNCHANGED <<saved, name, files, state>>

Fresh == /\ Becomes(New, Untitled)
         /\ UNCHANGED <<files, state>>

Load(f) == /\ files[f] \in Texts
           /\ Becomes(files[f], f)
           /\ UNCHANGED files

\* a file that is not quite right replaces a part of the text, which counts as
\* saved, except for what was cleared
Mix(f) == /\ files[f] # Unreadable
          /\ text' \in Texts /\ saved' \in Texts
          /\ UNCHANGED <<name, files, state>>

Save(f) == /\ files' = [files EXCEPT ![f] = text]
           /\ Becomes(text, f)

\* a save that does not reach the disk ends with what was there before
SaveOrLose(f) == Save(f) \/ Load(f)

Close ==
    /\ state' = "closed"
    /\ \/ text = saved /\ UNCHANGED <<text, saved, name, files>>
       \/ \E f \in IF name = Untitled THEN Files ELSE {name} : SaveOrLose(f)

Leave == /\ state' \in {"dropped", "aborted"}
         /\ UNCHANGED <<text, saved, name, files>>

Next ==
    /\ state = "open"
    /\ \/ Edit \/ Fresh \/ Close \/ Leave
       \/ \E f \in Files : \/ Mix(f)
                           \/ SaveOrLose(f) /\ UNCHANGED state

Spec == Init /\ [][Next]_vars
=============================================================================
