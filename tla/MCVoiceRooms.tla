---------------------------- MODULE MCVoiceRooms ----------------------------
(* Instances of VoiceRooms for TLC: two accounts, up to three connections. *)
EXTENDS VoiceRooms, TLC

CONSTANTS ann, bob, d1, d2, c1, c2, c3, sv1, sv2, ch1, dm1

\* c3 is Bob's connection, the others are Ann's.
UserOf == [c \in Conns |-> IF c = c3 THEN bob ELSE ann]

\* Ann's connections come from two devices.
TwoDevices == [c \in Conns |-> IF c = c2 THEN d2 ELSE d1]

\* Ann's second connection is a legacy client without a device key.
Legacy == [c \in Conns |-> IF c = c2 THEN NoDevice ELSE d1]

DmBoth == dm1 :> {ann, bob}
NoDms == [d \in {} |-> {}]

\* All channels belong to the first server.
FirstServer == [r \in ServerRooms |-> sv1]

\* Ann outranks Bob in the server of the channel, and Bob Ann in his own.
OneEach == sv1 :> {<<ann, bob>>} @@ sv2 :> {<<bob, ann>>}
Nobody == [s \in Servers |-> {}]

TokenSymmetry == Permutations(Tokens)
=============================================================================
