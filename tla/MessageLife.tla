---------------------------- MODULE MessageLife ----------------------------
(***************************************************************************)
(* What the tables of messages promise to whoever reads them, whatever the *)
(* handlers and the sweeper do in between: a message is posted once, its   *)
(* text may change and nothing else of it, it goes once and for all with   *)
(* everything that refers to it, and what is attached to it changes only   *)
(* while it is there.  Messages implements this.                           *)
(***************************************************************************)
CONSTANTS
    Msgs,       \* message ids
    Headers,    \* what is fixed of a message: author, conversation, file
    Lasting,    \* the marks that are not taken back ("read" receipts)
    None

VARIABLES
    used,       \* ids ever given to a message
    log,        \* [Msgs -> the header of the message, or None]
    text,       \* [Msgs -> its text]
    parent,     \* [Msgs -> the message whose thread it is in, or None]
    marks       \* [Msgs -> its tokens, reactions, votes, receipts and pin]

vars == <<used, log, text, parent, marks>>

There(m) == log[m] # None

Init ==
    \A m \in Msgs :
        /\ log[m] \in Headers \cup {None}
        /\ There(m) <=> m \in used
        /\ parent[m] = None
        /\ ~There(m) => marks[m] = {}

\* A message with a new id, in a thread that is there.
Post(m) ==
    /\ m \notin used
    /\ used' = used \cup {m}
    /\ log'[m] \in Headers
    /\ parent'[m] # None => parent'[m] # m /\ There(parent'[m])
    /\ \A n \in Msgs \ {m} : log'[n] = log[n] /\ text'[n] = text[n] /\ parent'[n] = parent[n]
    /\ UNCHANGED marks

\* Its text is edited.
Alter(m) ==
    /\ There(m)
    /\ \A n \in Msgs \ {m} : text'[n] = text[n]
    /\ UNCHANGED <<used, log, parent, marks>>

\* It is deleted or expires: its marks go with it, its thread is dissolved.
Remove(m) ==
    /\ There(m)
    /\ log'[m] = None
    /\ marks'[m] = {}
    /\ \A n \in Msgs \ {m} :
         /\ log'[n] = log[n] /\ text'[n] = text[n] /\ marks'[n] = marks[n]
         /\ parent'[n] = IF parent[n] = m THEN None ELSE parent[n]
    /\ UNCHANGED used

\* What is attached to it changes; what is to last stays.
Mark(m) ==
    /\ There(m)
    /\ marks[m] \cap Lasting \subseteq marks'[m]
    /\ \A n \in Msgs \ {m} : marks'[n] = marks[n]
    /\ UNCHANGED <<used, log, text, parent>>

Next == \E m \in Msgs : Post(m) \/ Alter(m) \/ Remove(m) \/ Mark(m)

Spec == Init /\ [][Next]_vars

=============================================================================
