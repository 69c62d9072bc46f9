---------------------------- MODULE MCLevelDBLog ----------------------------
(* Instances of LevelDBLog for TLC. *)
EXTENDS LevelDBLog

Put(key, value) == [put |-> TRUE, key |-> key, value |-> value]
Delete(key) == [put |-> FALSE, key |-> key, value |-> << >>]

\* The length of a state has two bytes.
State(n) == [i \in 1 .. n |-> i]

\* Encoded, 16, 19, 148 and 152 bytes.
MCBatches ==
    {<<Delete(<<1, 200>>)>>, <<Put(<<1, 200>>, <<9, 255>>)>>, <<Put(<<2, 128>>, State(130))>>,
     <<Put(<<3>>, State(128)), Delete(<<200>>), Put(<<4>>, << >>)>>}
=============================================================================
