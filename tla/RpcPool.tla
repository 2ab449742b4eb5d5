--------------------------------- MODULE RpcPool ---------------------------------
(* The pool of RPC endpoints of a chain (src/src/eth/rpc_manager.cpp) and the   *)
(* probes that mark them (src/src/eth/rpc_probe.cpp). Names and URLs are        *)
(* numbers, so that they have an order; a URL with a key in it is the pair of   *)
(* both, coded as a number. Time is the steady clock, in seconds.               *)
EXTENDS Integers, Sequences, SequencesExt

CONSTANTS Configs,                 \* the lists of configured endpoints
          MaxPerChain,             \* max_endpoints_per_chain, 0 for no limit
          Chain,                   \* the chain the pool is asked for
          kEscalationWindow,
          MaxTime, MaxMarks        \* bounds: the clock, calls that mark an endpoint

VARIABLES endpoints,   \* RpcEndpointPool::endpoints_
          now,         \* the clock
          probing,     \* probe_endpoint_pool's loop: the endpoint it is at, 0 for none
          marked,      \* history: when each endpoint failed, since it was last reset
          marks        \* counts the calls that mark an endpoint

poolVars == <<endpoints, now, probing, marked, marks>>

kMaxBackoff          == 60
kEscalationThreshold == 3

--------------------------------------------------------------------------------
(* Configuration                                                                *)

(* The URL, or nothing when it asks for a key and there is none.                *)
render_rpc_endpoint_url(c) ==
    IF ~c.requires_key THEN << c.url_template >>
    ELSE IF c.key = <<>> THEN <<>>
    ELSE << 100 * c.url_template + c.key[1] >>

build_rpc_endpoint(c) ==
    LET url == render_rpc_endpoint_url(c)
    IN  IF url = <<>> THEN <<>>
        ELSE << [chain |-> c.chain, url |-> url[1], priority |-> c.priority, weight |-> c.weight,
                 verified |-> FALSE, state |-> "kAvailable", failure_count |-> 0,
                 last_failure_time |-> 0, backoff_until |-> 0] >>

endpoint_less(a, b) ==
    \/ a.priority < b.priority
    \/ a.priority = b.priority /\ a.weight > b.weight
    \/ a.priority = b.priority /\ a.weight = b.weight /\ a.chain < b.chain
    \/ a.priority = b.priority /\ a.weight = b.weight /\ a.chain = b.chain /\ a.url < b.url

(* The group of one chain: the first max_endpoints_per_chain in order.          *)
group_rpc_endpoints(configs, chain) ==
    LET built  == FlattenSeq([i \in DOMAIN configs |->
                      IF configs[i].chain = chain THEN build_rpc_endpoint(configs[i]) ELSE <<>>])
        sorted == SortSeq(built, endpoint_less)
    IN  IF MaxPerChain # 0 /\ Len(sorted) > MaxPerChain
        THEN SubSeq(sorted, 1, MaxPerChain) ELSE sorted

PoolInit ==
    /\ \E c \in Configs : endpoints = group_rpc_endpoints(c, Chain)
    /\ now = 0 /\ probing = 0 /\ marks = 0
    /\ marked = [i \in DOMAIN endpoints |-> <<>>]

--------------------------------------------------------------------------------
(* Health                                                                       *)

is_usable(e) ==
    \/ e.state = "kAvailable"
    \/ e.state = "kTemporarilyFailed" /\ now >= e.backoff_until

Usable == {i \in DOMAIN endpoints : is_usable(endpoints[i])}

(* next_endpoint: the place of the first usable endpoint, 0 when there is none. *)
next_endpoint == IF Usable = {} THEN 0 ELSE CHOOSE i \in Usable : \A j \in Usable : i <= j

Backoff(n) == IF n > 6 THEN kMaxBackoff ELSE 2^(n - 1)

(* A mutant: the window is measured from the end of the backoff.                *)
Failed_LateWindow(e) ==
    LET n == IF e.failure_count > 0 /\ now - e.backoff_until > 0
             THEN 1 ELSE e.failure_count + 1
    IN  [e EXCEPT !.failure_count = n, !.last_failure_time = now,
                  !.backoff_until = now + Backoff(n),
                  !.state = IF n >= kEscalationThreshold THEN "kDisabled" ELSE "kTemporarilyFailed"]

(* One endpoint of the loop in mark_temporary_failure.                          *)
Failed(e) ==
    LET n == IF e.failure_count > 0 /\ now - e.last_failure_time > kEscalationWindow
             THEN 1 ELSE e.failure_count + 1
    IN  [e EXCEPT !.failure_count = n, !.last_failure_time = now,
                  !.backoff_until = now + Backoff(n),
                  !.state = IF n >= kEscalationThreshold THEN "kDisabled" ELSE "kTemporarilyFailed"]

(* Every endpoint with that URL is marked.                                      *)
mark_temporary_failure(url) ==
    /\ endpoints' = [i \in DOMAIN endpoints |->
                        IF endpoints[i].url = url THEN Failed(endpoints[i]) ELSE endpoints[i]]
    /\ marked' = [i \in DOMAIN endpoints |->
                        IF endpoints[i].url = url THEN Append(marked[i], now) ELSE marked[i]]
    /\ marks < MaxMarks /\ marks' = marks + 1

(* A caller whose call failed.                                                  *)
CallFailed(i) ==
    /\ probing = 0
    /\ mark_temporary_failure(endpoints[i].url)
    /\ UNCHANGED <<now, probing>>

disable(i) ==
    /\ probing = 0 /\ marks < MaxMarks /\ marks' = marks + 1
    /\ endpoints' = [j \in DOMAIN endpoints |->
                        IF endpoints[j].url = endpoints[i].url
                        THEN [endpoints[j] EXCEPT !.state = "kDisabled"] ELSE endpoints[j]]
    /\ UNCHANGED <<now, probing, marked>>

reset_temporary_failures ==
    LET Resets(i) == endpoints[i].state = "kTemporarilyFailed" IN
    /\ probing = 0
    /\ \E i \in DOMAIN endpoints : Resets(i)
    /\ endpoints' = [i \in DOMAIN endpoints |->
                        IF Resets(i)
                        THEN [endpoints[i] EXCEPT !.state = "kAvailable", !.failure_count = 0,
                                                  !.backoff_until = 0]
                        ELSE endpoints[i]]
    /\ marked' = [i \in DOMAIN endpoints |-> IF Resets(i) THEN <<>> ELSE marked[i]]
    /\ UNCHANGED <<now, probing, marks>>

(* probe_endpoint_pool asks the endpoints one after the other for their chain   *)
(* id, whatever their state; a good answer only sets verified.                  *)
Probe ==
    /\ probing = 0 /\ endpoints # <<>>
    /\ probing' = 1
    /\ UNCHANGED <<endpoints, now, marked, marks>>

ProbeAnswer(ok) ==
    /\ probing # 0
    /\ IF ok
       THEN /\ endpoints' = [endpoints EXCEPT ![probing].verified = TRUE]
            /\ UNCHANGED <<marked, marks>>
       ELSE mark_temporary_failure(endpoints[probing].url)
    /\ probing' = IF probing = Len(endpoints) THEN 0 ELSE probing + 1
    /\ UNCHANGED now

Tick == /\ now < MaxTime /\ now' = now + 1
        /\ UNCHANGED <<endpoints, probing, marked, marks>>

PoolNext ==
    \/ \E i \in DOMAIN endpoints : CallFailed(i) \/ disable(i)
    \/ reset_temporary_failures
    \/ Probe \/ (\E ok \in BOOLEAN : ProbeAnswer(ok))
    \/ Tick

--------------------------------------------------------------------------------
(* The failures of an endpoint that follow each other within the window, up to  *)
(* the last one.                                                                *)
Streak(times) ==
    LET n == Len(times)
        Joined(k) == \A j \in k..(n - 1) : times[j + 1] - times[j] <= kEscalationWindow
    IN  IF n = 0 THEN 0 ELSE n + 1 - (CHOOSE k \in 1..n : Joined(k) /\ \A j \in 1..(k - 1) : ~Joined(j))

Rested(i) ==
    LET n == Streak(marked[i])
    IN  n = 0 \/ (n < 3 /\ now - Last(marked[i]) >= n)

(* The endpoint that next_endpoint returns has rested: since it was last reset  *)
(* it has not failed three times in a row with no more than the window between  *)
(* two failures, and after one or two such failures it was left alone for one   *)
(* second or two. No endpoint that has rested comes before it, unless it was    *)
(* disabled.                                                                    *)
ChosenIsRested ==
    next_endpoint # 0 =>
        /\ Rested(next_endpoint)
        /\ ~ \E i \in DOMAIN endpoints :
                /\ Rested(i) /\ endpoints[i].state # "kDisabled"
                /\ endpoint_less(endpoints[i], endpoints[next_endpoint])

================================================================================
