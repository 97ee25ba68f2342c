------------------------------- MODULE MCSink -------------------------------
(***************************************************************************)
(* Small topics and owners for model-checking SinkDelivery.                *)
(***************************************************************************)
EXTENDS SinkDelivery, TLC

CONSTANTS s1, s2, s3, k1, p1

Update(s, l) == [kind |-> "event", source |-> s, key |-> k1, lsn |-> l, deleted |-> FALSE]
Delete(s, l) == [Update(s, l) EXCEPT !.deleted = TRUE]
Poison(s) == [Update(s, 0) EXCEPT !.kind = "poison"]
Empty(s) == [Update(s, 0) EXCEPT !.kind = "empty"]
Refusal(s, l) == [Update(s, l) EXCEPT !.kind = "rejected"]

\* An update, its delete, and the connector's re-delivery of the update.
RedeliveryLog == p1 :> <<Update(s1, 1), Delete(s1, 2), Update(s1, 1)>>

\* One partition shared by two sources.
MixedLog == p1 :> <<Update(s1, 1), Update(s2, 1), Poison(s1)>>

\* Two events of one source that the warehouse refuses, behind events of two
\* other sources, one of them unknown.
RefusedLog == p1 :> <<Update(s1, 1), Update(s3, 1), Refusal(s2, 1), Refusal(s2, 2), Poison(s2)>>

\* An event of one source, and one of another that the warehouse refuses.
RefusedSecond == p1 :> <<Update(s1, 1), Refusal(s2, 1), Empty(s1)>>

\* Workers are interchangeable.
WorkerSymmetry == Permutations(Workers)

KafkaOwns == [s \in Sources |-> "KAFKA"]
Mixed == s1 :> "KAFKA" @@ s2 :> "PYTHON"
ThirdUnregistered == s1 :> "KAFKA" @@ s2 :> "KAFKA" @@ s3 :> "unregistered"
FirstPython == s1 :> "PYTHON" @@ s2 :> "unregistered"
=============================================================================
