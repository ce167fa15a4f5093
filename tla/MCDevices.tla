----------------------------- MODULE MCDevices -----------------------------
(***************************************************************************)
(* TLC instance of Devices.                                                *)
(***************************************************************************)
EXTENDS Devices

CONSTANTS p1, p2, p3

c(o, a) == [op |-> o, arg |-> a]
scenario(c1, c2, c3, ks, vs) ==
  [calls |-> (p1 :> c1 @@ p2 :> c2 @@ p3 :> c3), keys |-> ks, victims |-> vs]

rd(b) == c("read_block", b)
wr(b) == c("write_block", b)

\* Three processes on the disk, one of them killed; enough requests for the
\* indices to wrap; a reader, with every sequence of three keys and some longer;
\* two readers; sleepers; writers, whose output meets the echo of a key; and a
\* reader, a writer and a request at once.
Keys == BoundedSeq(Key \ {"b", "ps"}, 3)
          \cup {<<"a", "ps", "b", "kill", "nl">>, <<"a", "b", "bs", "bs", "bs", "nl">>, <<"a", "nl", "b", "bs", "kill", "a">>,
                <<"a", "b", "a", "b", "nl", "eof">>}
MCScenarios ==
  {scenario(<<wr(1), rd(2)>>, <<wr(2)>>, <<wr(3)>>, <<>>, {p1}),
   scenario(<<wr(1), rd(2), rd(1), rd(3), rd(1), rd(2)>>, <<wr(2), rd(3)>>, <<>>, <<>>, {}),
   scenario(<<c("sleep", 2)>>, <<c("sleep", 1)>>, <<>>, <<>>, {p1, p2}),
   scenario(<<c("write", 3)>>, <<c("write", 1)>>, <<>>, <<"a">>, {}),
   scenario(<<c("read", 1)>>, <<wr(1)>>, <<c("write", 1)>>, <<"nl">>, {p1})}
  \cup {scenario(<<c("read", 2), c("read", 1)>>, <<>>, <<>>, ks, {}) : ks \in Keys}
  \cup {scenario(<<c("read", 2)>>, <<c("read", 1), c("read", 1)>>, <<>>, ks, {}) :
          ks \in {<<"a", "b", "nl">>, <<"a", "eof", "eof">>}}
=============================================================================
