---------------------------- MODULE PlanMatching ----------------------------
(***************************************************************************)
(* Where the stages of a model are placed, and when the execution plans of *)
(* neighbouring ranks agree with each other: on every channel the sender   *)
(* posts exactly the messages the receiver waits for, in the same order.   *)
(* The channels carry no tags, so the plans must agree by themselves.      *)
(*                                                                         *)
(* A plan is a sequence of operations [op, type, mb, chunk, from]; `plans` *)
(* maps every rank 0 .. D-1 to its plan.                                   *)
(***************************************************************************)
EXTENDS Integers, Sequences

Dir == {"next", "prev"}
Opposite(dir) == IF dir = "next" THEN "prev" ELSE "next"
PeerOf(D, d, dir) == IF dir = "next" THEN (d + 1) % D ELSE (d - 1 + D) % D

\* The order in which a microbatch visits the (device, chunk) stages, per
\* pipeline template: "loop" goes through the devices 0 .. D-1 once per chunk
\* (with one chunk: once), "wave" turns around after each chunk.
StageOf(template, D, dev, chunk) ==
    (chunk * D) + IF template = "wave" /\ chunk % 2 = 1 THEN D - 1 - dev ELSE dev

PostSendOp(dir) == IF dir = "next" THEN "POST_SEND_NEXT" ELSE "POST_SEND_PREV"
PostRecvOp(dir) == IF dir = "next" THEN "POST_RECV_NEXT" ELSE "POST_RECV_PREV"
WaitRecvOp(dir) == IF dir = "next" THEN "WAIT_RECV_NEXT" ELSE "WAIT_RECV_PREV"

\* The places of a plan that run operation op.
PlacesOf(plan, op) == {p \in DOMAIN plan : plan[p].op = op}

\* Operation a of rank d sends what operation b of rank e waits for: the
\* same task type and microbatch, on the stage that follows.
Carries(template, D, d, a, e, b) ==
    /\ a.type = b.type /\ a.mb = b.mb
    /\ StageOf(template, D, e, b.chunk) =
           StageOf(template, D, d, a.chunk) + IF a.type = "F" THEN 1 ELSE -1

\* The sends of rank d in direction dir pair off with the operations `op` of
\* its peer (its receives, as posted or as waited for), in the order of both
\* plans.
MatchedOn(template, D, plans, d, dir, op) ==
    LET e == PeerOf(D, d, dir)
        S == PlacesOf(plans[d], PostSendOp(dir))
        R == PlacesOf(plans[e], op)
        match(p, q) == Carries(template, D, d, plans[d][p], e, plans[e][q])
    IN  /\ \A p \in S : \E q \in R : match(p, q)
        /\ \A q \in R : \E p \in S : match(p, q)
        /\ \A p1, p2 \in S, q1, q2 \in R :
              match(p1, q1) /\ match(p2, q2) => (p1 < p2 <=> q1 < q2)

PostsMatch(template, D, plans, d, dir) ==
    MatchedOn(template, D, plans, d, dir, PostRecvOp(Opposite(dir)))

WaitsMatch(template, D, plans, d, dir) ==
    MatchedOn(template, D, plans, d, dir, WaitRecvOp(Opposite(dir)))
-----------------------------------------------------------------------------
(* When the plan of a rank is in order by itself: every task once, after   *)
(* the tasks and deliveries it uses and before its results are passed on.  *)
(* A key is a microbatch and a chunk; keys are those of the plan.          *)

Concerns(o, type, k) == o.type = type /\ o.mb = k[1] /\ o.chunk = k[2]

Deliveries == {"WAIT_RECV_NEXT", "WAIT_RECV_PREV", "LOCAL_COPY"}
PostedSends == {"POST_SEND_NEXT", "POST_SEND_PREV"}
Communication == Deliveries \cup PostedSends \cup {"POST_RECV_NEXT", "POST_RECV_PREV"}

\* The places where a plan runs one of ops for a task of type on key k.
PlacesFor(plan, ops, type, k) == {p \in DOMAIN plan : plan[p].op \in ops /\ Concerns(plan[p], type, k)}
TaskPlaces(plan, type, k) == PlacesFor(plan, {"COMPUTE"}, type, k)

TaskTypes(plan) == {"F", "B"} \cup {type \in {"W"} : \E p \in DOMAIN plan : plan[p].type = type}

TasksOnce(plan, keys) ==
    \A type \in TaskTypes(plan), k \in keys :
        \E p \in DOMAIN plan : TaskPlaces(plan, type, k) = {p}

\* A task comes after those whose results it uses, or after the delivery of
\* what another stage computes.
InputsFirst(template, D, C, d, plan, keys) ==
    \A k \in keys :
        LET stage == StageOf(template, D, d, k[2])
            after(p, places) == \E q \in places : q < p
        IN  /\ \A p \in TaskPlaces(plan, "F", k) :
                  stage = 0 \/ after(p, PlacesFor(plan, Deliveries, "F", k))
            /\ \A p \in TaskPlaces(plan, "B", k) :
                  /\ after(p, TaskPlaces(plan, "F", k))
                  /\ stage = (C * D) - 1 \/ after(p, PlacesFor(plan, Deliveries, "B", k))
            /\ \A p \in TaskPlaces(plan, "W", k) : after(p, TaskPlaces(plan, "B", k))

\* A result is sent once it has been computed, a gradient only once.
SentAfterTask(plan, keys) ==
    \A type \in {"F", "B"}, k \in keys :
        LET sends == PlacesFor(plan, PostedSends, type, k)
        IN  \A p \in sends :
                /\ \E q \in TaskPlaces(plan, type, k) : q < p
                /\ type = "B" => sends = {p}

\* A local copy goes to the following stage, from a task that has been
\* computed, an activation before its backward releases it, a gradient that is
\* not sent as well.
CopiedAfterTask(template, D, d, plan, keys) ==
    \A type \in {"F", "B"}, k \in keys :
        \A p \in PlacesFor(plan, {"LOCAL_COPY"}, type, k) :
            LET from == <<k[1], plan[p].from>>
            IN  /\ Carries(template, D, d, [plan[p] EXCEPT !.chunk = plan[p].from], d, plan[p])
                /\ \E q \in TaskPlaces(plan, type, from) : q < p
                /\ type = "F" => \A q \in TaskPlaces(plan, "B", from) : p < q
                /\ type = "B" => PlacesFor(plan, PostedSends, "B", from) = {}

\* No event of a forward comes after its backward.
ReleasedLast(plan, keys) ==
    \A k \in keys :
        \A p \in PlacesFor(plan, Communication, "F", k), q \in TaskPlaces(plan, "B", k) : p < q

\* The weight gradients are in the order of the backwards.
WgradsInOrder(plan, keys) ==
    \A j, k \in keys :
        \A p \in TaskPlaces(plan, "B", j), q \in TaskPlaces(plan, "B", k),
           v \in TaskPlaces(plan, "W", j), w \in TaskPlaces(plan, "W", k) : p < q => v < w

\* The gradient of a chunk is finished by its last microbatch.
LastMicrobatchLast(plan, N, keys) ==
    \A k \in keys, type \in {"B", "W"} :
        \A p \in TaskPlaces(plan, type, k), q \in TaskPlaces(plan, type, <<N - 1, k[2]>>) : p <= q

\* One forward, one backward: once `held` microbatches are between their
\* forward and their backward, a forward waits for the oldest backward.
Alternates(plan, N, held) ==
    \A j, k \in 0 .. N - 1 : k - j >= held =>
        \A p \in TaskPlaces(plan, "F", <<k, 0>>), q \in TaskPlaces(plan, "B", <<j, 0>>) : q < p

PlanInOrder(template, D, C, N, d, plan) ==
    LET keys == (0 .. N - 1) \X (0 .. C - 1)
    IN  /\ \A p \in DOMAIN plan : plan[p].op \in Communication => plan[p].type \in {"F", "B"}
        /\ TasksOnce(plan, keys)
        /\ InputsFirst(template, D, C, d, plan, keys)
        /\ SentAfterTask(plan, keys)
        /\ CopiedAfterTask(template, D, d, plan, keys)
        /\ ReleasedLast(plan, keys)
        /\ WgradsInOrder(plan, keys)
        /\ LastMicrobatchLast(plan, N, keys)
=============================================================================
