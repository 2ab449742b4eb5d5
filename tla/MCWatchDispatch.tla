---------------------------- MODULE MCWatchDispatch ----------------------------
(* WatchDispatch with three blocks, two of the same height, a window of two    *)
(* and two contracts.                                                          *)
EXTENDS WatchDispatch

CONSTANTS zero, h1, h2, h3, none, a1, a2, s1

Log(a, topics, words) == [address |-> a, topics |-> topics, words |-> words]

MCNumber == (h1 :> 1) @@ (h2 :> 2) @@ (h3 :> 2)

(* A block with two transactions, one with a log that does not decode, one     *)
(* without logs.                                                               *)
MCReceiptsOf == (h1 :> << <<Log(a1, <<s1>>, 1)>>, <<Log(a2, <<s1>>, 1)>> >>)
             @@ (h2 :> << <<Log(a1, <<s1>>, 0), Log(a1, <<s1>>, 1)>> >>)
             @@ (h3 :> << <<Log(a2, <<>>, 1)>>, <<>> >>)

MCAnnouncements == { <<h1>>, <<h2, h1>>, <<h3, h3>> }

MCWatches == { [address |-> none, sig |-> s1, from |-> <<>>, to |-> <<1>>, indexed |-> 0, words |-> 1],
               [address |-> a1, sig |-> s1, from |-> <<1>>, to |-> <<>>, indexed |-> 0, words |-> 1] }
================================================================================
