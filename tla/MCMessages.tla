----------------------------- MODULE MCMessages -----------------------------
(* Instances of Messages for TLC: ann has two devices (c1, c2), bob one (c3). *)
EXTENDS Messages

CONSTANTS ann, bob, c1, c2, c3, ch1, dm1

UserOf == [c \in Tasks |-> IF c = c3 THEN bob ELSE ann]
Everybody == [k \in Convs |-> {ann, bob}]
\* Everybody may write; ann moderates the channel.
AnnManages == ((Perms \ {"manage"}) \X Users) \cup {<<"manage", ann>>}
ManageChanges == {<<"manage", ann>>}
Nothing == {}

=============================================================================
