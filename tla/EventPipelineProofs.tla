-------------------------- MODULE EventPipelineProofs --------------------------
(***************************************************************************)
(* Theorems about the two ways of events into a log of the service: the    *)
(* outbox and the intake joined by HTTP, and the connector to 1C.          *)
(* First the outbox on its own, against any answer the protocol allows,    *)
(* for any events, parents, exporters, export ids and settings.  Then the  *)
(* pipeline: it still obeys the open specification of the outbox, so       *)
(* everything proved about that holds here; SENT means stored and FAILED   *)
(* means invalid; and the whole implements EventDelivery.  Last the        *)
(* connector, for any documents, clients, kinds, window and page size.     *)
(***************************************************************************)
EXTENDS EventPipeline, OneC, FiniteSetTheorems, WellFoundedInduction, SequenceTheorems, TLAPS

\* An exporter at work has an export row of its own, and the row says how far
\* the exporter is; an idle one has nothing.
ThreadInv ==
    \A w \in Workers :
        /\ pc[w] = "idle" => held[w] = {} /\ key[w] = NoKey
        /\ pc[w] # "idle" => key[w] \in Keys
        /\ pc[w] \in {"claimed", "waiting", "applying"} => exports[key[w]] = "sending"
        /\ pc[w] = "retrying" => exports[key[w]] = "failed"
        /\ \A v \in Workers : pc[w] # "idle" /\ key[v] = key[w] => v = w

\* The rows an exporter holds are of its packet: all of it until it gets an
\* answer, and afterwards what is left out is sent unless it was refused.
HeldInv ==
    \A w \in Workers :
        /\ pc[w] # "idle" => held[w] \subseteq packet[key[w]]
        /\ pc[w] \in {"claimed", "waiting"} => held[w] = packet[key[w]]
        /\ pc[w] = "applying" =>
             \A e \in packet[key[w]] \ held[w] :
                 e \notin refused[w] => status[e] = "sent" /\ exportOf[e] = key[w]

\* An export row that does not exist has no packet.
PacketInv == \A k \in Keys : exports[k] = "unused" => packet[k] = {}

\* A row whose foreign keys are set exists or existed.
LinkedInv == \A e \in Events : linked[e] => status[e] # "absent"

\* The packets a row was ever put in.
Packets(e) == {k \in Keys : e \in packet[k]}

\* A row that is not there was in no packet; a settled one has an attempt for
\* each of its packets; and whoever holds a row has a copy from before the claim,
\* one attempt behind.
CountInv ==
    \A e \in Events :
        /\ IsFiniteSet(Packets(e))
        /\ status[e] = "absent" => attempts[e] = 0 /\ Packets(e) = {}
        /\ status[e] \in {"pending", "sent", "failed", "dead_letter"}
             => attempts[e] = Cardinality(Packets(e))
        /\ \A w \in Workers : e \in held[w] /\ status[e] # "deleted"
             => seen[w][e] + 1 = Cardinality(Packets(e))

IInv ==
    /\ TypeOK
    /\ LinkedInv
    /\ ThreadInv
    /\ HeldInv
    /\ PacketInv
    /\ ClaimIsExclusive
    /\ VerdictMatchesRows
    /\ MarkedDemoStaysHome
    /\ CountInv

-----------------------------------------------------------------------------
(* Helpers. *)

\* The oldest rows of a set are rows of the set.
LEMMA OldestSubset == ASSUME NEW S, NEW n PROVE Oldest(S, n) \subseteq S
BY DEF Oldest

-----------------------------------------------------------------------------
(* Every step preserves every part of the invariant. *)

\* The variables keep their types.
LEMMA TypeStep ==
    TypeOK /\ [Next]_vars => TypeOK'
<1> SUFFICES ASSUME TypeOK, [Next]_vars
             PROVE  TypeOK'
  OBVIOUS
<1> USE OldestSubset, SettingAssumption
<1>1. ASSUME NEW e \in Events, Record(e)
      PROVE  TypeOK'
  BY <1>1 DEF Record, TypeOK, RowStatus, ExportStatus, rows, books, threads
<1>2. ASSUME NEW b \in Batches, DropUnsent(b)
      PROVE  TypeOK'
  BY <1>2 DEF DropUnsent, TypeOK, RowStatus, ExportStatus, rows, books, threads
<1>3. ASSUME NEW b \in Batches, DeleteParent(b)
      PROVE  TypeOK'
  BY <1>3 DEF DeleteParent, TypeOK, RowStatus, ExportStatus, rows, books, threads
<1>4. ASSUME RetryFailed
      PROVE  TypeOK'
  BY <1>4 DEF RetryFailed, TypeOK, RowStatus, ExportStatus, rows, books, threads
<1>5. ASSUME NEW w \in Workers, NEW k \in Keys, ClaimAs(w, k)
      PROVE  TypeOK'
  BY <1>5 DEF ClaimAs, Exportable, TypeOK, RowStatus, ExportStatus, rows, books, threads
<1>6. ASSUME NEW w \in Workers, Send(w)
      PROVE  TypeOK'
  BY <1>6 DEF Send, TypeOK, RowStatus, ExportStatus, rows, books, threads
<1>7. ASSUME NEW w \in Workers, NEW errors \in SUBSET held[w], Answer(w, errors)
      PROVE  TypeOK'
  BY <1>7 DEF Answer, TypeOK, RowStatus, ExportStatus, rows, books, threads
<1>8. ASSUME NEW w \in Workers, NEW e \in held[w], ApplyOne(w, e)
      PROVE  TypeOK'
  BY <1>8 DEF ApplyOne, TypeOK, RowStatus, ExportStatus, rows, books, threads
<1>9. ASSUME NEW w \in Workers, NEW e \in held[w], RetryOne(w, e)
      PROVE  TypeOK'
  <2> USE <1>9 DEF RetryOne
  <2>1. e \in Events /\ attempts' \in [Events -> Nat]
    BY DEF TypeOK
  <2>2. status' \in [Events -> RowStatus]
    BY <2>1 DEF TypeOK, RowStatus
  <2>3. CASE held[w] = {e}
    <3>1. Leave(w)
      BY <2>3
    <3> QED
      BY <2>1, <2>2, <3>1 DEF Leave, TypeOK, books
  <2>4. CASE held[w] # {e}
    <3>1. held' = [held EXCEPT ![w] = @ \ {e}] /\ UNCHANGED <<pc, key, seen, refused>>
      BY <2>4
    <3> QED
      BY <2>1, <2>2, <3>1 DEF TypeOK, books
  <2> QED
    BY <2>3, <2>4
<1>10. ASSUME NEW w \in Workers, NEW e \in held[w], LoseRow(w, e)
      PROVE  TypeOK'
  BY <1>10 DEF LoseRow, Leave, TypeOK, RowStatus, ExportStatus, rows, books, threads
<1>11. ASSUME NEW w \in Workers, Finish(w)
      PROVE  TypeOK'
  BY <1>11 DEF Finish, Leave, TypeOK, RowStatus, ExportStatus, rows, books, threads
<1>12. ASSUME NEW w \in Workers, Fail(w)
      PROVE  TypeOK'
  BY <1>12 DEF Fail, TypeOK, RowStatus, ExportStatus, rows, books, threads
<1>13. ASSUME NEW w \in Workers, Abort(w)
      PROVE  TypeOK'
  BY <1>13 DEF Abort, Leave, TypeOK, RowStatus, ExportStatus, rows, books, threads
<1>14. CASE UNCHANGED vars
  BY <1>14 DEF vars, TypeOK, RowStatus, ExportStatus, rows, books, threads
<1>15. QED
  BY <1>1, <1>2, <1>3, <1>4, <1>5, <1>6, <1>7, <1>8, <1>9, <1>10, <1>11, <1>12, <1>13, <1>14 DEF Next, Exporter, Claim, SaveRow

\* An exporter and its export row stay in step.
LEMMA ThreadStep ==
    TypeOK /\ ThreadInv /\ [Next]_vars => ThreadInv'
<1> SUFFICES ASSUME TypeOK, ThreadInv, [Next]_vars
             PROVE  ThreadInv'
  OBVIOUS
<1> USE OldestSubset, KeyAssumption DEF TypeOK
<1>1. ASSUME NEW e \in Events, Record(e)
      PROVE  ThreadInv'
  BY <1>1 DEF Record, ThreadInv, rows, books, threads
<1>2. ASSUME NEW b \in Batches, DropUnsent(b)
      PROVE  ThreadInv'
  BY <1>2 DEF DropUnsent, ThreadInv, rows, books, threads
<1>3. ASSUME NEW b \in Batches, DeleteParent(b)
      PROVE  ThreadInv'
  BY <1>3 DEF DeleteParent, ThreadInv, rows, books, threads
<1>4. ASSUME RetryFailed
      PROVE  ThreadInv'
  BY <1>4 DEF RetryFailed, ThreadInv, rows, books, threads
<1>5. ASSUME NEW w \in Workers, NEW k \in Keys, ClaimAs(w, k)
      PROVE  ThreadInv'
  <2>1. ASSUME NEW v \in Workers PROVE key[v] # k
    <3>1. exports[k] = "unused"
      BY <1>5 DEF ClaimAs
    <3>2. CASE pc[v] = "idle"
      BY <3>2 DEF ThreadInv
    <3>3. CASE pc[v] \in {"claimed", "waiting", "applying", "retrying"}
      BY <3>1, <3>3 DEF ThreadInv
    <3> QED
      BY <3>2, <3>3
  <2>2. \A v \in Workers \ {w} : pc'[v] = pc[v] /\ key'[v] = key[v] /\ held'[v] = held[v]
    BY <1>5 DEF ClaimAs
  <2>3. pc'[w] = "claimed" /\ key'[w] = k /\ exports'[k] = "sending"
    BY <1>5 DEF ClaimAs
  <2>4. \A j \in Keys \ {k} : exports'[j] = exports[j]
    BY <1>5 DEF ClaimAs
  <2> QED
    BY <2>1, <2>2, <2>3, <2>4 DEF ThreadInv
<1>6. ASSUME NEW w \in Workers, Send(w)
      PROVE  ThreadInv'
  BY <1>6 DEF Send, ThreadInv, rows, books, threads
<1>7. ASSUME NEW w \in Workers, NEW errors \in SUBSET held[w], Answer(w, errors)
      PROVE  ThreadInv'
  BY <1>7 DEF Answer, ThreadInv, rows, books, threads
<1>8. ASSUME NEW w \in Workers, NEW e \in held[w], ApplyOne(w, e)
      PROVE  ThreadInv'
  BY <1>8 DEF ApplyOne, ThreadInv, rows, books, threads
<1>9. ASSUME NEW w \in Workers, NEW e \in held[w], RetryOne(w, e)
      PROVE  ThreadInv'
  BY <1>9 DEF RetryOne, Leave, ThreadInv, rows, books, threads
<1>10. ASSUME NEW w \in Workers, NEW e \in held[w], LoseRow(w, e)
      PROVE  ThreadInv'
  BY <1>10 DEF LoseRow, Leave, ThreadInv, rows, books, threads
<1>11. ASSUME NEW w \in Workers, Finish(w)
      PROVE  ThreadInv'
  BY <1>11 DEF Finish, Leave, ThreadInv, rows, books, threads
<1>12. ASSUME NEW w \in Workers, Fail(w)
      PROVE  ThreadInv'
  BY <1>12 DEF Fail, ThreadInv, rows, books, threads
<1>13. ASSUME NEW w \in Workers, Abort(w)
      PROVE  ThreadInv'
  BY <1>13 DEF Abort, Leave, ThreadInv, rows, books, threads
<1>14. CASE UNCHANGED vars
  BY <1>14 DEF vars, ThreadInv, rows, books, threads
<1>15. QED
  BY <1>1, <1>2, <1>3, <1>4, <1>5, <1>6, <1>7, <1>8, <1>9, <1>10, <1>11, <1>12, <1>13, <1>14 DEF Next, Exporter, Claim, SaveRow

\* A packet comes into being with its export row.
LEMMA PacketStep ==
    TypeOK /\ ThreadInv /\ PacketInv /\ [Next]_vars => PacketInv'
<1> SUFFICES ASSUME TypeOK, ThreadInv, PacketInv, [Next]_vars
             PROVE  PacketInv'
  OBVIOUS
<1> USE OldestSubset, KeyAssumption DEF TypeOK
<1>1. ASSUME NEW e \in Events, Record(e)
      PROVE  PacketInv'
  BY <1>1 DEF Record, PacketInv, ThreadInv, rows, books, threads
<1>2. ASSUME NEW b \in Batches, DropUnsent(b)
      PROVE  PacketInv'
  BY <1>2 DEF DropUnsent, PacketInv, ThreadInv, rows, books, threads
<1>3. ASSUME NEW b \in Batches, DeleteParent(b)
      PROVE  PacketInv'
  BY <1>3 DEF DeleteParent, PacketInv, ThreadInv, rows, books, threads
<1>4. ASSUME RetryFailed
      PROVE  PacketInv'
  BY <1>4 DEF RetryFailed, PacketInv, ThreadInv, rows, books, threads
<1>5. ASSUME NEW w \in Workers, NEW k \in Keys, ClaimAs(w, k)
      PROVE  PacketInv'
  BY <1>5 DEF ClaimAs, Exportable, PacketInv, ThreadInv, rows, books, threads
<1>6. ASSUME NEW w \in Workers, Send(w)
      PROVE  PacketInv'
  BY <1>6 DEF Send, PacketInv, ThreadInv, rows, books, threads
<1>7. ASSUME NEW w \in Workers, NEW errors \in SUBSET held[w], Answer(w, errors)
      PROVE  PacketInv'
  BY <1>7 DEF Answer, PacketInv, ThreadInv, rows, books, threads
<1>8. ASSUME NEW w \in Workers, NEW e \in held[w], ApplyOne(w, e)
      PROVE  PacketInv'
  BY <1>8 DEF ApplyOne, PacketInv, ThreadInv, rows, books, threads
<1>9. ASSUME NEW w \in Workers, NEW e \in held[w], RetryOne(w, e)
      PROVE  PacketInv'
  BY <1>9 DEF RetryOne, Leave, PacketInv, ThreadInv, rows, books, threads
<1>10. ASSUME NEW w \in Workers, NEW e \in held[w], LoseRow(w, e)
      PROVE  PacketInv'
  BY <1>10 DEF LoseRow, Leave, PacketInv, ThreadInv, rows, books, threads
<1>11. ASSUME NEW w \in Workers, Finish(w)
      PROVE  PacketInv'
  BY <1>11 DEF Finish, Leave, PacketInv, ThreadInv, rows, books, threads
<1>12. ASSUME NEW w \in Workers, Fail(w)
      PROVE  PacketInv'
  BY <1>12 DEF Fail, PacketInv, ThreadInv, rows, books, threads
<1>13. ASSUME NEW w \in Workers, Abort(w)
      PROVE  PacketInv'
  BY <1>13 DEF Abort, Leave, PacketInv, ThreadInv, rows, books, threads
<1>14. CASE UNCHANGED vars
  BY <1>14 DEF vars, PacketInv, ThreadInv, rows, books, threads
<1>15. QED
  BY <1>1, <1>2, <1>3, <1>4, <1>5, <1>6, <1>7, <1>8, <1>9, <1>10, <1>11, <1>12, <1>13, <1>14 DEF Next, Exporter, Claim, SaveRow

\* No row is ever in the hands of two exporters.
LEMMA ClaimStep ==
    TypeOK /\ ThreadInv /\ ClaimIsExclusive /\ [Next]_vars => ClaimIsExclusive'
<1> SUFFICES ASSUME TypeOK, ThreadInv, ClaimIsExclusive, [Next]_vars
             PROVE  ClaimIsExclusive'
  OBVIOUS
<1> USE OldestSubset, KeyAssumption DEF TypeOK
<1>1. ASSUME NEW e \in Events, Record(e)
      PROVE  ClaimIsExclusive'
  BY <1>1 DEF Record, ClaimIsExclusive, ThreadInv, rows, books, threads
<1>2. ASSUME NEW b \in Batches, DropUnsent(b)
      PROVE  ClaimIsExclusive'
  BY <1>2 DEF DropUnsent, ClaimIsExclusive, ThreadInv, rows, books, threads
<1>3. ASSUME NEW b \in Batches, DeleteParent(b)
      PROVE  ClaimIsExclusive'
  BY <1>3 DEF DeleteParent, ClaimIsExclusive, ThreadInv, rows, books, threads
<1>4. ASSUME RetryFailed
      PROVE  ClaimIsExclusive'
  BY <1>4 DEF RetryFailed, ClaimIsExclusive, ThreadInv, rows, books, threads
<1>5. ASSUME NEW w \in Workers, NEW k \in Keys, ClaimAs(w, k)
      PROVE  ClaimIsExclusive'
  BY <1>5 DEF ClaimAs, Exportable, ClaimIsExclusive, ThreadInv, rows, books, threads
<1>6. ASSUME NEW w \in Workers, Send(w)
      PROVE  ClaimIsExclusive'
  BY <1>6 DEF Send, ClaimIsExclusive, ThreadInv, rows, books, threads
<1>7. ASSUME NEW w \in Workers, NEW errors \in SUBSET held[w], Answer(w, errors)
      PROVE  ClaimIsExclusive'
  BY <1>7 DEF Answer, ClaimIsExclusive, ThreadInv, rows, books, threads
<1>8. ASSUME NEW w \in Workers, NEW e \in held[w], ApplyOne(w, e)
      PROVE  ClaimIsExclusive'
  BY <1>8 DEF ApplyOne, ClaimIsExclusive, ThreadInv, rows, books, threads
<1>9. ASSUME NEW w \in Workers, NEW e \in held[w], RetryOne(w, e)
      PROVE  ClaimIsExclusive'
  <2>1. CASE held[w] = {e}
    <3>1. Leave(w)
      BY <1>9, <2>1 DEF RetryOne
    <3> QED
      BY <1>9, <3>1 DEF RetryOne, Leave, ClaimIsExclusive, ThreadInv, books
  <2>2. CASE held[w] # {e}
    <3>1. held' = [held EXCEPT ![w] = @ \ {e}] /\ UNCHANGED <<pc, key, seen, refused>>
      BY <1>9, <2>2 DEF RetryOne
    <3> QED
      BY <1>9, <3>1 DEF RetryOne, ClaimIsExclusive, ThreadInv, books
  <2> QED
    BY <2>1, <2>2
<1>10. ASSUME NEW w \in Workers, NEW e \in held[w], LoseRow(w, e)
      PROVE  ClaimIsExclusive'
  BY <1>10 DEF LoseRow, Leave, ClaimIsExclusive, ThreadInv, rows, books, threads
<1>11. ASSUME NEW w \in Workers, Finish(w)
      PROVE  ClaimIsExclusive'
  BY <1>11 DEF Finish, Leave, ClaimIsExclusive, ThreadInv, rows, books, threads
<1>12. ASSUME NEW w \in Workers, Fail(w)
      PROVE  ClaimIsExclusive'
  BY <1>12 DEF Fail, ClaimIsExclusive, ThreadInv, rows, books, threads
<1>13. ASSUME NEW w \in Workers, Abort(w)
      PROVE  ClaimIsExclusive'
  BY <1>13 DEF Abort, Leave, ClaimIsExclusive, ThreadInv, rows, books, threads
<1>14. CASE UNCHANGED vars
  BY <1>14 DEF vars, ClaimIsExclusive, ThreadInv, rows, books, threads
<1>15. QED
  BY <1>1, <1>2, <1>3, <1>4, <1>5, <1>6, <1>7, <1>8, <1>9, <1>10, <1>11, <1>12, <1>13, <1>14 DEF Next, Exporter, Claim, SaveRow

\* A row that is marked as demo is never taken.
LEMMA DemoStep ==
    TypeOK /\ ClaimIsExclusive /\ MarkedDemoStaysHome /\ [Next]_vars => MarkedDemoStaysHome'
<1> SUFFICES ASSUME TypeOK, ClaimIsExclusive, MarkedDemoStaysHome, [Next]_vars
             PROVE  MarkedDemoStaysHome'
  OBVIOUS
<1> USE OldestSubset, OwnerAssumption DEF TypeOK
<1>1. ASSUME NEW e \in Events, Record(e)
      PROVE  MarkedDemoStaysHome'
  BY <1>1 DEF Record, ClaimIsExclusive, MarkedDemoStaysHome, rows, books, threads
<1>2. ASSUME NEW b \in Batches, DropUnsent(b)
      PROVE  MarkedDemoStaysHome'
  BY <1>2 DEF DropUnsent, ClaimIsExclusive, MarkedDemoStaysHome, rows, books, threads
<1>3. ASSUME NEW b \in Batches, DeleteParent(b)
      PROVE  MarkedDemoStaysHome'
  BY <1>3 DEF DeleteParent, ClaimIsExclusive, MarkedDemoStaysHome, rows, books, threads
<1>4. ASSUME RetryFailed
      PROVE  MarkedDemoStaysHome'
  BY <1>4 DEF RetryFailed, ClaimIsExclusive, MarkedDemoStaysHome, rows, books, threads
<1>5. ASSUME NEW w \in Workers, NEW k \in Keys, ClaimAs(w, k)
      PROVE  MarkedDemoStaysHome'
  BY <1>5 DEF ClaimAs, Exportable, ClaimIsExclusive, MarkedDemoStaysHome, rows, books, threads
<1>6. ASSUME NEW w \in Workers, Send(w)
      PROVE  MarkedDemoStaysHome'
  BY <1>6 DEF Send, ClaimIsExclusive, MarkedDemoStaysHome, rows, books, threads
<1>7. ASSUME NEW w \in Workers, NEW errors \in SUBSET held[w], Answer(w, errors)
      PROVE  MarkedDemoStaysHome'
  BY <1>7 DEF Answer, ClaimIsExclusive, MarkedDemoStaysHome, rows, books, threads
<1>8. ASSUME NEW w \in Workers, NEW e \in held[w], ApplyOne(w, e)
      PROVE  MarkedDemoStaysHome'
  BY <1>8 DEF ApplyOne, ClaimIsExclusive, MarkedDemoStaysHome, rows, books, threads
<1>9. ASSUME NEW w \in Workers, NEW e \in held[w], RetryOne(w, e)
      PROVE  MarkedDemoStaysHome'
  BY <1>9 DEF RetryOne, Leave, ClaimIsExclusive, MarkedDemoStaysHome, rows, books, threads
<1>10. ASSUME NEW w \in Workers, NEW e \in held[w], LoseRow(w, e)
      PROVE  MarkedDemoStaysHome'
  BY <1>10 DEF LoseRow, Leave, ClaimIsExclusive, MarkedDemoStaysHome, rows, books, threads
<1>11. ASSUME NEW w \in Workers, Finish(w)
      PROVE  MarkedDemoStaysHome'
  BY <1>11 DEF Finish, Leave, ClaimIsExclusive, MarkedDemoStaysHome, rows, books, threads
<1>12. ASSUME NEW w \in Workers, Fail(w)
      PROVE  MarkedDemoStaysHome'
  BY <1>12 DEF Fail, ClaimIsExclusive, MarkedDemoStaysHome, rows, books, threads
<1>13. ASSUME NEW w \in Workers, Abort(w)
      PROVE  MarkedDemoStaysHome'
  BY <1>13 DEF Abort, Leave, ClaimIsExclusive, MarkedDemoStaysHome, rows, books, threads
<1>14. CASE UNCHANGED vars
  BY <1>14 DEF vars, ClaimIsExclusive, MarkedDemoStaysHome, rows, books, threads
<1>15. QED
  BY <1>1, <1>2, <1>3, <1>4, <1>5, <1>6, <1>7, <1>8, <1>9, <1>10, <1>11, <1>12, <1>13, <1>14 DEF Next, Exporter, Claim, SaveRow

\* What an exporter holds is what is left of its packet.
LEMMA HeldStep ==
    TypeOK /\ ThreadInv /\ ClaimIsExclusive /\ HeldInv /\ [Next]_vars => HeldInv'
<1> SUFFICES ASSUME TypeOK, ThreadInv, ClaimIsExclusive, HeldInv, [Next]_vars
             PROVE  HeldInv'
  OBVIOUS
<1> USE OldestSubset, KeyAssumption DEF TypeOK
<1>1. ASSUME NEW e \in Events, Record(e)
      PROVE  HeldInv'
  BY <1>1 DEF Record, HeldInv, ClaimIsExclusive, ThreadInv, rows, books, threads
<1>2. ASSUME NEW b \in Batches, DropUnsent(b)
      PROVE  HeldInv'
  BY <1>2 DEF DropUnsent, HeldInv, ClaimIsExclusive, ThreadInv, rows, books, threads
<1>3. ASSUME NEW b \in Batches, DeleteParent(b)
      PROVE  HeldInv'
  BY <1>3 DEF DeleteParent, HeldInv, ClaimIsExclusive, ThreadInv, rows, books, threads
<1>4. ASSUME RetryFailed
      PROVE  HeldInv'
  BY <1>4 DEF RetryFailed, HeldInv, ClaimIsExclusive, ThreadInv, rows, books, threads
<1>5. ASSUME NEW w \in Workers, NEW k \in Keys, ClaimAs(w, k)
      PROVE  HeldInv'
  BY <1>5 DEF ClaimAs, Exportable, HeldInv, ClaimIsExclusive, ThreadInv, rows, books, threads
<1>6. ASSUME NEW w \in Workers, Send(w)
      PROVE  HeldInv'
  BY <1>6 DEF Send, HeldInv, ClaimIsExclusive, ThreadInv, rows, books, threads
<1>7. ASSUME NEW w \in Workers, NEW errors \in SUBSET held[w], Answer(w, errors)
      PROVE  HeldInv'
  BY <1>7 DEF Answer, HeldInv, ClaimIsExclusive, ThreadInv, rows, books, threads
<1>8. ASSUME NEW w \in Workers, NEW e \in held[w], ApplyOne(w, e)
      PROVE  HeldInv'
  BY <1>8 DEF ApplyOne, HeldInv, ClaimIsExclusive, ThreadInv, rows, books, threads
<1>9. ASSUME NEW w \in Workers, NEW e \in held[w], RetryOne(w, e)
      PROVE  HeldInv'
  <2>1. CASE held[w] = {e}
    <3>1. Leave(w)
      BY <1>9, <2>1 DEF RetryOne
    <3> QED
      BY <1>9, <3>1 DEF RetryOne, Leave, HeldInv, ClaimIsExclusive, ThreadInv, books
  <2>2. CASE held[w] # {e}
    <3>1. held' = [held EXCEPT ![w] = @ \ {e}] /\ UNCHANGED <<pc, key, seen, refused>>
      BY <1>9, <2>2 DEF RetryOne
    <3> QED
      BY <1>9, <3>1 DEF RetryOne, HeldInv, ClaimIsExclusive, ThreadInv, books
  <2> QED
    BY <2>1, <2>2
<1>10. ASSUME NEW w \in Workers, NEW e \in held[w], LoseRow(w, e)
      PROVE  HeldInv'
  BY <1>10 DEF LoseRow, Leave, HeldInv, ClaimIsExclusive, ThreadInv, rows, books, threads
<1>11. ASSUME NEW w \in Workers, Finish(w)
      PROVE  HeldInv'
  BY <1>11 DEF Finish, Leave, HeldInv, ClaimIsExclusive, ThreadInv, rows, books, threads
<1>12. ASSUME NEW w \in Workers, Fail(w)
      PROVE  HeldInv'
  BY <1>12 DEF Fail, HeldInv, ClaimIsExclusive, ThreadInv, rows, books, threads
<1>13. ASSUME NEW w \in Workers, Abort(w)
      PROVE  HeldInv'
  BY <1>13 DEF Abort, Leave, HeldInv, ClaimIsExclusive, ThreadInv, rows, books, threads
<1>14. CASE UNCHANGED vars
  BY <1>14 DEF vars, HeldInv, ClaimIsExclusive, ThreadInv, rows, books, threads
<1>15. QED
  BY <1>1, <1>2, <1>3, <1>4, <1>5, <1>6, <1>7, <1>8, <1>9, <1>10, <1>11, <1>12, <1>13, <1>14 DEF Next, Exporter, Claim, SaveRow

\* A row is linked when it is recorded.
LEMMA LinkedStep ==
    TypeOK /\ LinkedInv /\ [Next]_vars => LinkedInv'
<1> SUFFICES ASSUME TypeOK, LinkedInv, [Next]_vars
             PROVE  LinkedInv'
  OBVIOUS
<1> USE OldestSubset DEF TypeOK
<1>1. ASSUME NEW e \in Events, Record(e)
      PROVE  LinkedInv'
  BY <1>1 DEF Record, LinkedInv, rows, books, threads
<1>2. ASSUME NEW b \in Batches, DropUnsent(b)
      PROVE  LinkedInv'
  BY <1>2 DEF DropUnsent, LinkedInv, rows, books, threads
<1>3. ASSUME NEW b \in Batches, DeleteParent(b)
      PROVE  LinkedInv'
  BY <1>3 DEF DeleteParent, LinkedInv, rows, books, threads
<1>4. ASSUME RetryFailed
      PROVE  LinkedInv'
  BY <1>4 DEF RetryFailed, LinkedInv, rows, books, threads
<1>5. ASSUME NEW w \in Workers, NEW k \in Keys, ClaimAs(w, k)
      PROVE  LinkedInv'
  BY <1>5 DEF ClaimAs, Exportable, LinkedInv, rows, books, threads
<1>6. ASSUME NEW w \in Workers, Send(w)
      PROVE  LinkedInv'
  BY <1>6 DEF Send, LinkedInv, rows, books, threads
<1>7. ASSUME NEW w \in Workers, NEW errors \in SUBSET held[w], Answer(w, errors)
      PROVE  LinkedInv'
  BY <1>7 DEF Answer, LinkedInv, rows, books, threads
<1>8. ASSUME NEW w \in Workers, NEW e \in held[w], ApplyOne(w, e)
      PROVE  LinkedInv'
  BY <1>8 DEF ApplyOne, LinkedInv, rows, books, threads
<1>9. ASSUME NEW w \in Workers, NEW e \in held[w], RetryOne(w, e)
      PROVE  LinkedInv'
  BY <1>9 DEF RetryOne, Leave, LinkedInv, rows, books, threads
<1>10. ASSUME NEW w \in Workers, NEW e \in held[w], LoseRow(w, e)
      PROVE  LinkedInv'
  BY <1>10 DEF LoseRow, Leave, LinkedInv, rows, books, threads
<1>11. ASSUME NEW w \in Workers, Finish(w)
      PROVE  LinkedInv'
  BY <1>11 DEF Finish, Leave, LinkedInv, rows, books, threads
<1>12. ASSUME NEW w \in Workers, Fail(w)
      PROVE  LinkedInv'
  BY <1>12 DEF Fail, LinkedInv, rows, books, threads
<1>13. ASSUME NEW w \in Workers, Abort(w)
      PROVE  LinkedInv'
  BY <1>13 DEF Abort, Leave, LinkedInv, rows, books, threads
<1>14. CASE UNCHANGED vars
  BY <1>14 DEF vars, LinkedInv, rows, books, threads
<1>15. QED
  BY <1>1, <1>2, <1>3, <1>4, <1>5, <1>6, <1>7, <1>8, <1>9, <1>10, <1>11, <1>12, <1>13, <1>14 DEF Next, Exporter, Claim, SaveRow

\* The verdict of an export stays true of its rows.
LEMMA VerdictStep ==
    TypeOK /\ ThreadInv /\ ClaimIsExclusive /\ HeldInv /\ PacketInv /\ VerdictMatchesRows /\ [Next]_vars => VerdictMatchesRows'
<1> SUFFICES ASSUME TypeOK, ThreadInv, ClaimIsExclusive, HeldInv, PacketInv, VerdictMatchesRows, [Next]_vars
             PROVE  VerdictMatchesRows'
  OBVIOUS
<1> USE OldestSubset, KeyAssumption DEF TypeOK
<1>1. ASSUME NEW e \in Events, Record(e)
      PROVE  VerdictMatchesRows'
  BY <1>1 DEF Record, VerdictMatchesRows, HeldInv, PacketInv, ClaimIsExclusive, ThreadInv, rows, books, threads
<1>2. ASSUME NEW b \in Batches, DropUnsent(b)
      PROVE  VerdictMatchesRows'
  BY <1>2 DEF DropUnsent, VerdictMatchesRows, HeldInv, PacketInv, ClaimIsExclusive, ThreadInv, rows, books, threads
<1>3. ASSUME NEW b \in Batches, DeleteParent(b)
      PROVE  VerdictMatchesRows'
  BY <1>3 DEF DeleteParent, VerdictMatchesRows, HeldInv, PacketInv, ClaimIsExclusive, ThreadInv, rows, books, threads
<1>4. ASSUME RetryFailed
      PROVE  VerdictMatchesRows'
  BY <1>4 DEF RetryFailed, VerdictMatchesRows, HeldInv, PacketInv, ClaimIsExclusive, ThreadInv, rows, books, threads
<1>5. ASSUME NEW w \in Workers, NEW k \in Keys, ClaimAs(w, k)
      PROVE  VerdictMatchesRows'
  BY <1>5 DEF ClaimAs, Exportable, VerdictMatchesRows, HeldInv, PacketInv, ClaimIsExclusive, ThreadInv, rows, books, threads
<1>6. ASSUME NEW w \in Workers, Send(w)
      PROVE  VerdictMatchesRows'
  BY <1>6 DEF Send, VerdictMatchesRows, HeldInv, PacketInv, ClaimIsExclusive, ThreadInv, rows, books, threads
<1>7. ASSUME NEW w \in Workers, NEW errors \in SUBSET held[w], Answer(w, errors)
      PROVE  VerdictMatchesRows'
  BY <1>7 DEF Answer, VerdictMatchesRows, HeldInv, PacketInv, ClaimIsExclusive, ThreadInv, rows, books, threads
<1>8. ASSUME NEW w \in Workers, NEW e \in held[w], ApplyOne(w, e)
      PROVE  VerdictMatchesRows'
  BY <1>8 DEF ApplyOne, VerdictMatchesRows, HeldInv, PacketInv, ClaimIsExclusive, ThreadInv, rows, books, threads
<1>9. ASSUME NEW w \in Workers, NEW e \in held[w], RetryOne(w, e)
      PROVE  VerdictMatchesRows'
  BY <1>9 DEF RetryOne, Leave, VerdictMatchesRows, HeldInv, PacketInv, ClaimIsExclusive, ThreadInv, rows, books, threads
<1>10. ASSUME NEW w \in Workers, NEW e \in held[w], LoseRow(w, e)
      PROVE  VerdictMatchesRows'
  BY <1>10 DEF LoseRow, Leave, VerdictMatchesRows, HeldInv, PacketInv, ClaimIsExclusive, ThreadInv, rows, books, threads
<1>11. ASSUME NEW w \in Workers, Finish(w)
      PROVE  VerdictMatchesRows'
  BY <1>11 DEF Finish, Leave, VerdictMatchesRows, HeldInv, PacketInv, ClaimIsExclusive, ThreadInv, rows, books, threads
<1>12. ASSUME NEW w \in Workers, Fail(w)
      PROVE  VerdictMatchesRows'
  <2>1. key[w] \in Keys /\ exports[key[w]] = "sending" /\ held[w] = packet[key[w]]
    BY <1>12 DEF Fail, ThreadInv, HeldInv
  <2>2. \A e \in packet[key[w]] : status[e] \notin {"sent", "failed"}
    BY <2>1 DEF ClaimIsExclusive
  <2>3. /\ \A k \in Keys : exports'[k] = IF k = key[w] THEN "failed" ELSE exports[k]
        /\ UNCHANGED <<status, exportOf, packet>>
    BY <1>12, <2>1 DEF Fail, rows
  <2> QED
    BY <2>2, <2>3 DEF VerdictMatchesRows
<1>13. ASSUME NEW w \in Workers, Abort(w)
      PROVE  VerdictMatchesRows'
  BY <1>13 DEF Abort, Leave, VerdictMatchesRows, HeldInv, PacketInv, ClaimIsExclusive, ThreadInv, rows, books, threads
<1>14. CASE UNCHANGED vars
  BY <1>14 DEF vars, VerdictMatchesRows, HeldInv, PacketInv, ClaimIsExclusive, ThreadInv, rows, books, threads
<1>15. QED
  BY <1>1, <1>2, <1>3, <1>4, <1>5, <1>6, <1>7, <1>8, <1>9, <1>10, <1>11, <1>12, <1>13, <1>14 DEF Next, Exporter, Claim, SaveRow

\* Every row goes on with one attempt for each of its packets.
LEMMA CountStep ==
    TypeOK /\ ThreadInv /\ PacketInv /\ ClaimIsExclusive /\ CountInv /\ [Next]_vars => CountInv'
<1> SUFFICES ASSUME TypeOK, ThreadInv, PacketInv, ClaimIsExclusive, CountInv, [Next]_vars
             PROVE  CountInv'
  OBVIOUS
<1> USE OldestSubset DEF TypeOK
<1>1. ASSUME packet' = packet,
             \A x \in Events :
               /\ status'[x] = "absent" => status[x] = "absent" /\ attempts'[x] = attempts[x]
               /\ status'[x] \in {"pending", "sent", "failed", "dead_letter"}
                    => \/ /\ status[x] \in {"absent", "pending", "sent", "failed", "dead_letter"}
                          /\ attempts'[x] = attempts[x]
                       \/ /\ status[x] # "deleted"
                          /\ \E w \in Workers : x \in held[w] /\ attempts'[x] = seen[w][x] + 1
               /\ \A w \in Workers : x \in held'[w] /\ status'[x] # "deleted"
                    => x \in held[w] /\ status[x] # "deleted" /\ seen'[w][x] = seen[w][x]
      PROVE  CountInv'
  <2> SUFFICES ASSUME NEW x \in Events
               PROVE  /\ IsFiniteSet(Packets(x))'
                      /\ status'[x] = "absent" => attempts'[x] = 0 /\ Packets(x)' = {}
                      /\ status'[x] \in {"pending", "sent", "failed", "dead_letter"}
                           => attempts'[x] = Cardinality(Packets(x))'
                      /\ \A w \in Workers : x \in held'[w] /\ status'[x] # "deleted"
                           => seen'[w][x] + 1 = Cardinality(Packets(x))'
    BY DEF CountInv
  <2>1. Packets(x)' = Packets(x)
    BY <1>1 DEF Packets
  <2>2. status[x] = "absent" => attempts[x] = Cardinality(Packets(x))
    BY FS_EmptySet DEF CountInv
  <2> QED
    BY <1>1, <2>1, <2>2 DEF CountInv
<1>2. ASSUME NEW e \in Events, Record(e) PROVE CountInv'
  BY <1>1, <1>2 DEF Record, books, threads
<1>3. ASSUME NEW b \in Batches, DropUnsent(b) \/ DeleteParent(b) PROVE CountInv'
  BY <1>1, <1>3 DEF DropUnsent, DeleteParent, books, threads
<1>4. ASSUME RetryFailed PROVE CountInv'
  BY <1>1, <1>4 DEF RetryFailed, books, threads
<1>5. ASSUME NEW w \in Workers, NEW k \in Keys, ClaimAs(w, k) PROVE CountInv'
  <2> DEFINE batch == Oldest(Exportable, BatchSize)
  <2>1. batch \subseteq Events /\ \A x \in batch : status[x] = "pending"
    BY DEF Exportable
  <2>2. /\ packet[k] = {} /\ packet' = [packet EXCEPT ![k] = batch]
        /\ status' = [x \in Events |-> IF x \in batch THEN "processing" ELSE status[x]]
        /\ held' = [held EXCEPT ![w] = batch] /\ held[w] = {}
        /\ seen' = [seen EXCEPT ![w] = [x \in Events |-> IF x \in batch THEN attempts[x] ELSE 0]]
        /\ attempts' = attempts
    BY <1>5 DEF ClaimAs, PacketInv, ThreadInv
  <2> HIDE DEF batch
  <2> SUFFICES ASSUME NEW x \in Events
               PROVE  /\ IsFiniteSet(Packets(x))'
                      /\ status'[x] = "absent" => attempts'[x] = 0 /\ Packets(x)' = {}
                      /\ status'[x] \in {"pending", "sent", "failed", "dead_letter"}
                           => attempts'[x] = Cardinality(Packets(x))'
                      /\ \A v \in Workers : x \in held'[v] /\ status'[x] # "deleted"
                           => seen'[v][x] + 1 = Cardinality(Packets(x))'
    BY DEF CountInv
  <2>3. CASE x \notin batch
    <3>1. Packets(x)' = Packets(x)
      BY <2>2, <2>3 DEF Packets
    <3>2. status'[x] = status[x] /\ attempts'[x] = attempts[x]
          /\ \A v \in Workers : x \in held'[v] => x \in held[v] /\ seen'[v][x] = seen[v][x]
      BY <2>2, <2>3
    <3> QED
      BY <3>1, <3>2 DEF CountInv
  <2>4. CASE x \in batch
    <3>1. Packets(x)' = Packets(x) \cup {k} /\ k \notin Packets(x)
      BY <2>2, <2>4 DEF Packets
    <3>2. IsFiniteSet(Packets(x)) /\ attempts[x] = Cardinality(Packets(x))
      BY <2>1, <2>4 DEF CountInv
    <3>3. IsFiniteSet(Packets(x)') /\ Cardinality(Packets(x)') = attempts[x] + 1
      <4> DEFINE P == Packets(x)
      <4>1. IsFiniteSet(P) /\ k \notin P /\ Cardinality(P) = attempts[x] /\ Packets(x)' = P \cup {k}
        BY <3>1, <3>2
      <4> HIDE DEF P
      <4>2. IsFiniteSet(P \cup {k}) /\ Cardinality(P \cup {k}) = Cardinality(P) + 1
        BY <4>1, FS_AddElement
      <4> QED
        BY <4>1, <4>2
    <3>4. status'[x] = "processing" /\ status[x] = "pending" /\ seen'[w][x] = attempts[x]
      BY <2>1, <2>2, <2>4
    <3>5. \A v \in Workers : x \in held'[v] => v = w
      BY <2>2, <3>4 DEF ClaimIsExclusive
    <3> QED
      BY <3>3, <3>4, <3>5
  <2> QED
    BY <2>3, <2>4
<1>6. ASSUME NEW w \in Workers,
             Send(w) \/ Fail(w) \/ \E errors \in SUBSET held[w] : Answer(w, errors)
      PROVE  CountInv'
  BY <1>1, <1>6 DEF Send, Fail, Answer, rows, books
<1>7. ASSUME NEW w \in Workers,
             Finish(w) \/ Abort(w) \/ \E e \in held[w] : LoseRow(w, e)
      PROVE  CountInv'
  BY <1>1, <1>7 DEF Finish, Abort, LoseRow, Leave, rows, books
<1>8. ASSUME NEW w \in Workers, NEW e \in held[w], ApplyOne(w, e) PROVE CountInv'
  <2>1. e \in Events /\ status[e] # "deleted"
    BY <1>8 DEF ApplyOne
  <2> QED
    BY <1>1, <1>8, <2>1 DEF ApplyOne, ClaimIsExclusive, books
<1>9. ASSUME NEW w \in Workers, NEW e \in held[w], RetryOne(w, e) PROVE CountInv'
  <2>1. /\ e \in Events /\ status[e] = "processing"
        /\ status' = [status EXCEPT ![e] = status'[e]] /\ status'[e] \in {"dead_letter", "pending"}
        /\ attempts' = [attempts EXCEPT ![e] = seen[w][e] + 1] /\ packet' = packet
    BY <1>9 DEF RetryOne, ClaimIsExclusive, books
  <2>2. \A v \in Workers : \A x \in held'[v] : x \in held[v] /\ seen'[v][x] = seen[v][x] /\ x # e
    <3>1. CASE held[w] = {e}
      <4>1. Leave(w)
        BY <1>9, <3>1 DEF RetryOne
      <4> QED
        BY <1>9, <3>1, <4>1 DEF Leave, ClaimIsExclusive
    <3>2. CASE held[w] # {e}
      <4>1. held' = [held EXCEPT ![w] = @ \ {e}] /\ seen' = seen
        BY <1>9, <3>2 DEF RetryOne
      <4> QED
        BY <1>9, <4>1 DEF ClaimIsExclusive
    <3> QED
      BY <3>1, <3>2
  <2>3. \A x \in Events \ {e} : status'[x] = status[x] /\ attempts'[x] = attempts[x]
    BY <2>1
  <2>4. attempts'[e] = seen[w][e] + 1
    BY <2>1
  <2> QED
    BY <1>1, <2>1, <2>2, <2>3, <2>4
<1>10. CASE UNCHANGED vars
  BY <1>1, <1>10 DEF vars, rows, books, threads
<1> QED
  BY <1>2, <1>3, <1>4, <1>5, <1>6, <1>7, <1>8, <1>9, <1>10
     DEF Next, Exporter, Claim, SaveRow

-----------------------------------------------------------------------------
(* The theorems. *)

\* The invariant is inductive.
LEMMA InductiveInit == Init => IInv
<1> SUFFICES ASSUME Init PROVE IInv
  OBVIOUS
<1>1. CountInv
  <2>1. \A e \in Events : Packets(e) = {}
    BY DEF Init, Packets
  <2> QED
    BY <2>1, FS_EmptySet DEF Init, CountInv
<1> QED
  BY <1>1, KeyAssumption
     DEF Init, IInv, LinkedInv, TypeOK, RowStatus, ExportStatus, ThreadInv, HeldInv, PacketInv,
         ClaimIsExclusive, VerdictMatchesRows, MarkedDemoStaysHome

LEMMA InductiveStep == IInv /\ [Next]_vars => IInv'
BY TypeStep, LinkedStep, ThreadStep, HeldStep, PacketStep, ClaimStep, VerdictStep, DemoStep,
   CountStep DEF IInv

THEOREM Inductive == Spec => []IInv
<1>1. Init => IInv
  BY InductiveInit
<1>2. IInv /\ [Next]_vars => IInv'
  BY InductiveStep
<1> QED
  BY <1>1, <1>2, PTL DEF Spec

\* The variables of the outbox keep their types, whatever the threads, the
\* deletions and the answers of the analytics service.
THEOREM TypeCorrect == Spec => []TypeOK
<1>1. IInv => TypeOK
  BY DEF IInv
<1> QED
  BY <1>1, Inductive, PTL

\* However many exporters run at once, a row is in the hands of at most one, and
\* is PROCESSING for it or deleted under it.
THEOREM ExclusiveClaim == Spec => []ClaimIsExclusive
<1>1. IInv => ClaimIsExclusive
  BY DEF IInv
<1> QED
  BY <1>1, Inductive, PTL

\* An export row marked ACCEPTED has all its rows SENT by it, one marked FAILED
\* has sent none, however exports, re-queues and deletions interleave.
THEOREM HonestVerdict == Spec => []VerdictMatchesRows
<1>1. IInv => VerdictMatchesRows
  BY DEF IInv
<1> QED
  BY <1>1, Inductive, PTL

\* No row that still carries its demo mark leaves the queue.
THEOREM DemoStaysHome == Spec => []MarkedDemoStaysHome
<1>1. IInv => MarkedDemoStaysHome
  BY DEF IInv
<1> QED
  BY <1>1, Inductive, PTL

\* However exports interleave, die halfway or are retried, a settled row has been
\* charged one attempt for every packet it was ever in: no count is lost or doubled.
THEOREM AttemptsCounted == Spec => []AttemptsAreExports
<1>1. IInv => AttemptsAreExports
  BY DEF IInv, CountInv, Packets, AttemptsAreExports
<1> QED
  BY <1>1, Inductive, PTL

\* A SENT row stays SENT by the same export, a DEAD_LETTER row leaves that state
\* only by deletion.
THEOREM SettledForGood == Spec => SettledIsFinal
<1>1. IInv /\ [Next]_vars =>
        [\A e \in Events :
           /\ status[e] = "sent" => status'[e] = "sent" /\ exportOf'[e] = exportOf[e]
           /\ status[e] = "dead_letter" => status'[e] \in {"dead_letter", "deleted"}]_vars
  <2> SUFFICES ASSUME IInv, [Next]_vars, NEW x \in Events
               PROVE  /\ status[x] = "sent" => status'[x] = "sent" /\ exportOf'[x] = exportOf[x]
                      /\ status[x] = "dead_letter" => status'[x] \in {"dead_letter", "deleted"}
    OBVIOUS
  <2> USE OldestSubset DEF IInv, TypeOK, ClaimIsExclusive
  <2>1. ASSUME NEW e \in Events, Record(e) \/ (\E w \in Workers : e \in held[w]
                 /\ (ApplyOne(w, e) \/ RetryOne(w, e) \/ LoseRow(w, e)))
        PROVE  /\ status[x] = "sent" => status'[x] = "sent" /\ exportOf'[x] = exportOf[x]
               /\ status[x] = "dead_letter" => status'[x] \in {"dead_letter", "deleted"}
    BY <2>1 DEF Record, ApplyOne, RetryOne, LoseRow, rows
  <2>2. ASSUME NEW b \in Batches, DropUnsent(b) \/ DeleteParent(b)
        PROVE  /\ status[x] = "sent" => status'[x] = "sent" /\ exportOf'[x] = exportOf[x]
               /\ status[x] = "dead_letter" => status'[x] \in {"dead_letter", "deleted"}
    BY <2>2 DEF DropUnsent, DeleteParent
  <2>3. ASSUME NEW w \in Workers, Claim(w)
        PROVE  /\ status[x] = "sent" => status'[x] = "sent" /\ exportOf'[x] = exportOf[x]
               /\ status[x] = "dead_letter" => status'[x] \in {"dead_letter", "deleted"}
    BY <2>3 DEF Claim, ClaimAs, Exportable
  <2>4. CASE RetryFailed
    BY <2>4 DEF RetryFailed
  <2>5. CASE UNCHANGED rows
    BY <2>5 DEF rows
  <2>6. ASSUME NEW w \in Workers,
               Send(w) \/ Fail(w) \/ Finish(w) \/ Abort(w)
                 \/ \E errors \in SUBSET held[w] : Answer(w, errors)
        PROVE  UNCHANGED rows
    BY <2>6 DEF Send, Fail, Finish, Abort, Answer
  <2> QED
    BY <2>1, <2>2, <2>3, <2>4, <2>5, <2>6 DEF Next, Exporter, SaveRow, vars
<1> QED
  BY <1>1, Inductive, PTL DEF Spec, SettledIsFinal

-----------------------------------------------------------------------------
(* The pipeline. *)

Valid(k) == packet[k] \ Invalid

\* What the intake knows of a packet: it has only to do with packets that
\* exist; a receipt or a good answer means every valid row has arrived; half
\* way through, a row has arrived or its case type is still to do.
IntakeInv ==
    /\ \A k \in Keys : k \in requests \/ k = current \/ k \in receipts \/ verdict[k] # "none"
                         => exports[k] # "unused"
    /\ \A k \in Keys : k \in receipts \/ verdict[k] = "ok" => Valid(k) \subseteq arrived
    /\ current # NoKey => \A e \in Valid(current) : CaseType[e] \in todo \/ e \in arrived
    /\ \A c \in CaseTypes : stored[c] \subseteq arrived
    /\ current = NoKey => todo = {}

\* An exporter applies the answer to its own packet.
AnswerInv ==
    \A w \in Workers :
        pc[w] = "applying" => /\ refused[w] = packet[key[w]] \cap Invalid
                              /\ Valid(key[w]) \subseteq arrived

PInv ==
    /\ IInv
    /\ Intake!TypeOK
    /\ IntakeInv
    /\ AnswerInv
    /\ SentWasStored
    /\ FailedWasInvalid
    /\ ResendIsAccepted

-----------------------------------------------------------------------------
(* The pipeline obeys the open specification of the outbox. *)

LEMMA ExportStep == IInv /\ [PipelineNext]_pipelineVars => [Next]_vars
<1> SUFFICES ASSUME IInv, [PipelineNext]_pipelineVars PROVE [Next]_vars
  OBVIOUS
<1>1. CASE QmsStep
  BY <1>1 DEF QmsStep, Next, Exporter
<1>2. CASE IntakeStep
  BY <1>2 DEF IntakeStep
<1>3. ASSUME NEW w \in Workers, Request(w) PROVE [Next]_vars
  BY <1>3 DEF Request, Next, Exporter
<1>4. ASSUME NEW w \in Workers, Response(w) PROVE [Next]_vars
  <2>1. packet[key[w]] \cap Invalid \in SUBSET held[w]
    BY <1>4 DEF Response, IInv, HeldInv
  <2>2. Answer(w, packet[key[w]] \cap Invalid)
    BY <1>4 DEF Response
  <2> QED
    BY <2>1, <2>2 DEF Next, Exporter
<1>5. CASE UNCHANGED pipelineVars
  BY <1>5 DEF pipelineVars
<1> QED
  BY <1>1, <1>2, <1>3, <1>4, <1>5 DEF PipelineNext

LEMMA ExportInductive == IInv /\ [PipelineNext]_pipelineVars => IInv'
BY ExportStep, InductiveStep

\* Joining the outbox to the real intake takes nothing away from what it
\* promises on its own: the pipeline implements EventExport.
THEOREM ImplementsExport == PipelineSpec => Spec
<1>1. PipelineInit => Init
  BY DEF PipelineInit
<1>2. PipelineInit => IInv
  BY <1>1, InductiveInit
<1>3. IInv /\ [PipelineNext]_pipelineVars => IInv'
  BY ExportInductive
<1>4. IInv /\ [PipelineNext]_pipelineVars => [Next]_vars
  BY ExportStep
<1> QED
  BY <1>1, <1>2, <1>3, <1>4, PTL DEF PipelineSpec, Spec

-----------------------------------------------------------------------------
(* Frames: what the two sides leave alone. *)

\* The packet of an existing export never changes and the export never goes.
LEMMA PacketFrame ==
    IInv /\ [Next]_vars =>
      \A k \in Keys : exports[k] # "unused" => packet'[k] = packet[k] /\ exports'[k] # "unused"
<1> SUFFICES ASSUME IInv, [Next]_vars, NEW j \in Keys, exports[j] # "unused"
             PROVE  packet'[j] = packet[j] /\ exports'[j] # "unused"
  OBVIOUS
<1> USE DEF IInv, TypeOK
<1>1. ASSUME NEW w \in Workers, NEW k \in Keys, ClaimAs(w, k)
      PROVE  packet'[j] = packet[j] /\ exports'[j] # "unused"
  BY <1>1 DEF ClaimAs
<1>2. ASSUME NEW w \in Workers, Finish(w) \/ Fail(w)
      PROVE  packet'[j] = packet[j] /\ exports'[j] # "unused"
  BY <1>2 DEF Finish, Fail
<1>3. CASE UNCHANGED books
  BY <1>3 DEF books
<1>4. ASSUME NEW w \in Workers,
             Send(w) \/ Abort(w) \/ (\E errors \in SUBSET held[w] : Answer(w, errors))
      PROVE  UNCHANGED books
  BY <1>4 DEF Send, Abort, Answer
<1>5. ASSUME NEW w \in Workers, SaveRow(w)
      PROVE  UNCHANGED books
  BY <1>5 DEF SaveRow, ApplyOne, RetryOne, LoseRow
<1>6. ASSUME NEW e \in Events, Record(e) PROVE UNCHANGED books
  BY <1>6 DEF Record
<1>7. ASSUME NEW b \in Batches, DropUnsent(b) \/ DeleteParent(b) PROVE UNCHANGED books
  BY <1>7 DEF DropUnsent, DeleteParent
<1>8. RetryFailed => UNCHANGED books
  BY DEF RetryFailed
<1> QED
  BY <1>1, <1>2, <1>3, <1>4, <1>5, <1>6, <1>7, <1>8 DEF Next, Exporter, Claim, vars

\* A thread that is applying was applying already, for the same export and with
\* the same answer, unless the answer comes just now.
LEMMA ApplyingFrame ==
    ASSUME IInv, [Next]_vars, NEW u \in Workers, pc'[u] = "applying",
           \A errors \in SUBSET held[u] : ~Answer(u, errors)
    PROVE  pc[u] = "applying" /\ key'[u] = key[u] /\ refused'[u] = refused[u]
<1> USE DEF IInv, TypeOK
<1>1. ASSUME NEW w \in Workers, NEW k \in Keys, ClaimAs(w, k)
      PROVE  pc[u] = "applying" /\ key'[u] = key[u] /\ refused'[u] = refused[u]
  BY <1>1 DEF ClaimAs
<1>2. ASSUME NEW w \in Workers, Send(w) \/ Fail(w) \/ Finish(w) \/ Abort(w)
      PROVE  pc[u] = "applying" /\ key'[u] = key[u] /\ refused'[u] = refused[u]
  BY <1>2 DEF Send, Fail, Finish, Abort, Leave
<1>3. ASSUME NEW w \in Workers, NEW errors \in SUBSET held[w], Answer(w, errors)
      PROVE  pc[u] = "applying" /\ key'[u] = key[u] /\ refused'[u] = refused[u]
  <2>1. w # u
    BY <1>3
  <2> QED
    BY <1>3, <2>1 DEF Answer
<1>4. ASSUME NEW w \in Workers, NEW e \in held[w], ApplyOne(w, e)
      PROVE  pc[u] = "applying" /\ key'[u] = key[u] /\ refused'[u] = refused[u]
  BY <1>4 DEF ApplyOne
<1>5. ASSUME NEW w \in Workers, NEW e \in held[w], RetryOne(w, e)
      PROVE  pc[u] = "applying" /\ key'[u] = key[u] /\ refused'[u] = refused[u]
  <2>1. Leave(w) \/ UNCHANGED <<pc, key, seen, refused>>
    BY <1>5 DEF RetryOne
  <2> QED
    BY <2>1 DEF Leave
<1>6. ASSUME NEW w \in Workers, NEW e \in held[w], LoseRow(w, e)
      PROVE  pc[u] = "applying" /\ key'[u] = key[u] /\ refused'[u] = refused[u]
  BY <1>6 DEF LoseRow, Leave
<1>7. CASE UNCHANGED threads
  BY <1>7 DEF threads
<1>8. ASSUME NEW e \in Events, Record(e) PROVE UNCHANGED threads
  BY <1>8 DEF Record
<1>9. ASSUME NEW b \in Batches, DropUnsent(b) \/ DeleteParent(b) PROVE UNCHANGED threads
  BY <1>9 DEF DropUnsent, DeleteParent
<1>10. RetryFailed => UNCHANGED threads
  BY DEF RetryFailed
<1> QED
  BY <1>1, <1>2, <1>3, <1>4, <1>5, <1>6, <1>7, <1>8, <1>9, <1>10
     DEF Next, Exporter, Claim, SaveRow, vars

\* A row becomes SENT or FAILED only in the hands of a thread that applies an
\* answer, and FAILED exactly when the answer refuses it.
LEMMA SettleFrame ==
    ASSUME IInv, [Next]_vars, NEW x \in Events,
           status'[x] \in {"sent", "failed"}, status'[x] # status[x]
    PROVE  \E w \in Workers : /\ pc[w] = "applying" /\ x \in held[w]
                              /\ status'[x] = "failed" <=> x \in refused[w]
<1> DEFINE Settled == \E w \in Workers : /\ pc[w] = "applying" /\ x \in held[w]
                                         /\ status'[x] = "failed" <=> x \in refused[w]
<1> USE DEF IInv, TypeOK
<1>1. ASSUME NEW w \in Workers, NEW k \in Keys, ClaimAs(w, k) PROVE FALSE
  BY <1>1 DEF ClaimAs
<1>2. ASSUME NEW w \in Workers, NEW e \in held[w], ApplyOne(w, e) PROVE Settled
  BY <1>2 DEF ApplyOne
<1>3. ASSUME NEW w \in Workers, NEW e \in held[w], RetryOne(w, e) PROVE FALSE
  BY <1>3 DEF RetryOne
<1>4. ASSUME NEW e \in Events, Record(e) PROVE FALSE
  BY <1>4 DEF Record
<1>5. ASSUME NEW b \in Batches, DropUnsent(b) PROVE FALSE
  BY <1>5 DEF DropUnsent
<1>6. ASSUME RetryFailed PROVE FALSE
  BY <1>6 DEF RetryFailed
<1>7. ASSUME NEW w \in Workers, NEW e \in held[w], LoseRow(w, e) PROVE FALSE
  BY <1>7 DEF LoseRow, rows
<1>8. ASSUME NEW w \in Workers,
             Send(w) \/ Fail(w) \/ Finish(w) \/ Abort(w)
               \/ \E errors \in SUBSET held[w] : Answer(w, errors)
      PROVE  FALSE
  BY <1>8 DEF Send, Fail, Finish, Abort, Answer, rows
<1>9. ASSUME NEW b \in Batches, DeleteParent(b) PROVE FALSE
  BY <1>9 DEF DeleteParent
<1>10. ASSUME UNCHANGED vars PROVE FALSE
  BY <1>10 DEF vars, rows
<1> QED
  BY <1>1, <1>2, <1>3, <1>4, <1>5, <1>6, <1>7, <1>8, <1>9, <1>10
     DEF Next, Exporter, Claim, SaveRow

\* Nothing that arrived is forgotten, and what arrives in a step are valid rows
\* of an existing packet.
LEMMA ArriveFrame ==
    PInv /\ [PipelineNext]_pipelineVars =>
      /\ arrived \subseteq arrived'
      /\ \A e \in arrived' \ arrived : \E k \in Keys : e \in Valid(k)
<1> SUFFICES ASSUME PInv, [PipelineNext]_pipelineVars
             PROVE  /\ arrived \subseteq arrived'
                    /\ \A e \in arrived' \ arrived : \E k \in Keys : e \in Valid(k)
  OBVIOUS
<1>1. CASE UNCHANGED intakeVars
  BY <1>1 DEF intakeVars
<1>2. ASSUME NEW w \in Workers, Request(w) PROVE arrived' = arrived
  BY <1>2 DEF Request
<1>3. CASE IntakeStep
  <2>1. ASSUME NEW c \in CaseTypes, Intake!Append(c)
        PROVE  /\ arrived \subseteq arrived'
               /\ \A e \in arrived' \ arrived : \E k \in Keys : e \in Valid(k)
    <3>1. current \in Keys
      BY <2>1 DEF PInv, Intake!TypeOK, IntakeInv, Intake!Append
    <3>2. arrived' = arrived \/ arrived' = arrived \cup Intake!DropKnown(Intake!Records(current, c), c)
      BY <2>1 DEF Intake!Append
    <3>3. Intake!DropKnown(Intake!Records(current, c), c) \subseteq Valid(current)
      BY DEF Intake!DropKnown, Intake!Records, Valid
    <3> QED
      BY <3>1, <3>2, <3>3
  <2>2. ASSUME NEW k \in Keys, Intake!Replay(k) \/ Intake!Accept(k) \/ Intake!Refuse(k)
        PROVE  arrived' = arrived
    BY <2>2 DEF Intake!Replay, Intake!Accept, Intake!Refuse, Intake!tables
  <2>3. ASSUME NEW c \in CaseTypes, Intake!AppendFails(c) \/ Intake!DeleteLog(c)
        PROVE  arrived' = arrived
    BY <2>3 DEF Intake!AppendFails, Intake!DeleteLog, Intake!tables
  <2>4. Intake!Respond \/ Intake!Crash => arrived' = arrived
    BY DEF Intake!Respond, Intake!Crash, Intake!tables
  <2>5. ASSUME NEW k \in Keys, Repost(k) PROVE arrived' = arrived
    BY <2>5 DEF Repost
  <2> QED
    BY <1>3, <2>1, <2>2, <2>3, <2>4, <2>5 DEF IntakeStep, Intake!Handler
<1> QED
  BY <1>1, <1>2, <1>3 DEF PipelineNext, QmsStep, Response, pipelineVars

-----------------------------------------------------------------------------
(* Every step of the pipeline preserves every part of its invariant. *)

LEMMA PacketTyped == PInv /\ [PipelineNext]_pipelineVars => packet' \in [Keys -> SUBSET Events]
BY ExportInductive DEF PInv, IInv, TypeOK

\* The variables of the intake keep their types inside the pipeline.
LEMMA IntakeTypeStep == PInv /\ [PipelineNext]_pipelineVars => Intake!TypeOK'
<1> SUFFICES ASSUME PInv, [PipelineNext]_pipelineVars PROVE Intake!TypeOK'
  OBVIOUS
<1>0. packet' \in [Keys -> SUBSET Events]
  BY PacketTyped
<1> USE <1>0 DEF PInv, Intake!TypeOK
<1>1. CASE UNCHANGED intakeVars
  BY <1>1 DEF intakeVars
<1>2. ASSUME NEW w \in Workers, Request(w) PROVE Intake!TypeOK'
  <2>1. key[w] \in Keys
    BY <1>2 DEF Request, Send, IInv, ThreadInv
  <2> QED
    BY <1>2, <2>1 DEF Request
<1>3. CASE IntakeStep
  <2> USE DEF Intake!Idle, Intake!handler, Intake!tables, IntakeInv
  <2>1. ASSUME NEW c \in CaseTypes, Intake!Append(c) PROVE Intake!TypeOK'
    <3>1. current \in Keys
      BY <2>1 DEF Intake!Append
    <3>2. Intake!DropKnown(Intake!Records(current, c), c) \subseteq Events
      BY <3>1 DEF Intake!DropKnown, Intake!Records
    <3>3. CASE Intake!IndexRefuses(Intake!DropKnown(Intake!Records(current, c), c), c)
      BY <2>1, <3>1, <3>3 DEF Intake!Append, Intake!Error500
    <3>4. CASE ~Intake!IndexRefuses(Intake!DropKnown(Intake!Records(current, c), c), c)
      BY <2>1, <3>1, <3>2, <3>4 DEF Intake!Append
    <3> QED
      BY <3>3, <3>4
  <2>2. ASSUME NEW k \in Keys, Intake!Replay(k) \/ Intake!Accept(k) \/ Intake!Refuse(k)
        PROVE  Intake!TypeOK'
    BY <2>2 DEF Intake!Replay, Intake!Accept, Intake!Refuse
  <2>3. ASSUME NEW c \in CaseTypes, Intake!AppendFails(c) \/ Intake!DeleteLog(c)
        PROVE  Intake!TypeOK'
    BY <2>3 DEF Intake!AppendFails, Intake!DeleteLog, Intake!Error500
  <2>4. Intake!Respond \/ Intake!Crash => Intake!TypeOK'
    BY DEF Intake!Respond, Intake!Crash
  <2>5. ASSUME NEW k \in Keys, Repost(k) PROVE Intake!TypeOK'
    BY <2>5 DEF Repost
  <2> QED
    BY <1>3, <2>1, <2>2, <2>3, <2>4, <2>5 DEF IntakeStep, Intake!Handler
<1> QED
  BY <1>1, <1>2, <1>3 DEF PipelineNext, QmsStep, Response, pipelineVars

\* The packets of existing exports stay as they are in a step of the pipeline.
LEMMA PacketStable ==
    PInv /\ [PipelineNext]_pipelineVars =>
      \A k \in Keys : exports[k] # "unused" => packet'[k] = packet[k] /\ exports'[k] # "unused"
BY ExportStep, PacketFrame DEF PInv

\* What the intake knows of the packets stays true.
LEMMA IntakeStepInv == PInv /\ [PipelineNext]_pipelineVars => IntakeInv'
<1> SUFFICES ASSUME PInv, [PipelineNext]_pipelineVars PROVE IntakeInv'
  OBVIOUS
<1>0. \A k \in Keys : exports[k] # "unused" => packet'[k] = packet[k] /\ exports'[k] # "unused"
  BY PacketStable
<1> USE PipelineAssumption, KeyAssumption DEF PInv, Intake!TypeOK, IntakeInv, Valid
<1>1. CASE UNCHANGED intakeVars
  BY <1>0, <1>1 DEF intakeVars
<1>2. ASSUME NEW w \in Workers, Request(w) PROVE IntakeInv'
  <2>1. key[w] \in Keys /\ exports[key[w]] # "unused"
    BY <1>2 DEF Request, Send, IInv, ThreadInv
  <2> QED
    BY <1>0, <1>2, <2>1 DEF Request
<1>3. CASE IntakeStep
  <2>0. packet' = packet /\ exports' = exports
    BY <1>3 DEF IntakeStep, vars, books
  <2> USE <2>0 DEF Intake!Idle, Intake!handler, Intake!tables
  <2>1. ASSUME NEW c \in CaseTypes, Intake!Append(c) PROVE IntakeInv'
    <3>1. current \in Keys
      BY <2>1 DEF Intake!Append
    <3>2. CASE Intake!IndexRefuses(Intake!DropKnown(Intake!Records(current, c), c), c)
      BY <2>1, <3>1, <3>2 DEF Intake!Append, Intake!Error500
    <3>3. CASE ~Intake!IndexRefuses(Intake!DropKnown(Intake!Records(current, c), c), c)
      <4>1. \A e \in Valid(current) : CaseType[e] = c =>
              e \in stored[c] \cup Intake!DropKnown(Intake!Records(current, c), c)
        BY DEF Intake!DropKnown, Intake!Records
      <4>2. /\ arrived' = arrived \cup Intake!DropKnown(Intake!Records(current, c), c)
            /\ stored' = [stored EXCEPT ![c] = @ \cup Intake!DropKnown(Intake!Records(current, c), c)]
            /\ todo' = todo \ {c}
            /\ UNCHANGED <<current, verdict, requests, receipts>>
        BY <2>1, <3>3 DEF Intake!Append
      <4> QED
        BY <3>1, <4>1, <4>2
    <3> QED
      BY <3>2, <3>3
  <2>2. ASSUME NEW k \in Keys, Intake!Replay(k) \/ Intake!Accept(k) \/ Intake!Refuse(k)
        PROVE  IntakeInv'
    <3>1. CASE Intake!Replay(k)
      BY <3>1 DEF Intake!Replay
    <3>2. CASE Intake!Refuse(k)
      BY <3>2 DEF Intake!Refuse
    <3>3. CASE Intake!Accept(k)
      <4>1. \A e \in Valid(k) : CaseType[e] \in todo'
        BY <3>3 DEF Intake!Accept, Intake!Records, IInv, TypeOK
      <4> QED
        BY <3>3, <4>1 DEF Intake!Accept
    <3> QED
      BY <2>2, <3>1, <3>2, <3>3
  <2>3. ASSUME NEW c \in CaseTypes, Intake!AppendFails(c) \/ Intake!DeleteLog(c)
        PROVE  IntakeInv'
    BY <2>3 DEF Intake!AppendFails, Intake!DeleteLog, Intake!Error500
  <2>4. Intake!Respond => IntakeInv'
    BY DEF Intake!Respond
  <2>5. Intake!Crash => IntakeInv'
    BY DEF Intake!Crash
  <2>6. ASSUME NEW k \in Keys, Repost(k) PROVE IntakeInv'
    BY <2>6 DEF Repost
  <2> QED
    BY <1>3, <2>1, <2>2, <2>3, <2>4, <2>5, <2>6 DEF IntakeStep, Intake!Handler
<1> QED
  BY <1>1, <1>2, <1>3 DEF PipelineNext, QmsStep, Response, pipelineVars

\* An exporter goes on applying the answer to its own packet.
LEMMA AnswerStep == PInv /\ [PipelineNext]_pipelineVars => AnswerInv'
<1> SUFFICES ASSUME PInv, [PipelineNext]_pipelineVars, NEW u \in Workers, pc'[u] = "applying"
             PROVE  /\ refused'[u] = (packet[key[u]] \cap Invalid)'
                    /\ Valid(key[u])' \subseteq arrived'
  BY DEF AnswerInv
<1>1. CASE Response(u)
  <2>1. /\ key'[u] = key[u] /\ key[u] \in Keys /\ packet' = packet /\ arrived' = arrived
        /\ refused'[u] = packet[key[u]] \cap Invalid
        /\ verdict[key[u]] = "ok"
    BY <1>1 DEF Response, Answer, books, intakeVars, PInv, IInv, TypeOK, ThreadInv
  <2>2. Valid(key[u]) \subseteq arrived
    BY <2>1 DEF PInv, IntakeInv
  <2> QED
    BY <2>1, <2>2 DEF Valid
<1>2. CASE ~Response(u)
  <2>1. [Next]_vars
    BY ExportStep DEF PInv
  <2>2. ~\E errors \in SUBSET held[u] : Answer(u, errors)
    <3> SUFFICES ASSUME NEW errors \in SUBSET held[u], Answer(u, errors) PROVE FALSE
      OBVIOUS
    <3>1. pc[u] = "waiting" /\ pc'[u] = "applying"
      BY DEF Answer, PInv, IInv, TypeOK
    <3>2. pc # pc'
      BY <3>1
    <3>3. CASE \E w \in Workers : Request(w)
      <4>1. PICK w \in Workers : Request(w)
        BY <3>3
      <4> QED
        BY <3>1, <4>1 DEF Request, Send, PInv, IInv, TypeOK
    <3>4. CASE \E w \in Workers : Response(w)
      <4>1. PICK w \in Workers : Response(w)
        BY <3>4
      <4>2. w # u
        BY <1>2, <4>1
      <4> QED
        BY <3>1, <4>1, <4>2 DEF Response, Answer, PInv, IInv, TypeOK
    <3>5. CASE IntakeStep
      BY <3>2, <3>5 DEF IntakeStep, vars, threads
    <3>6. CASE QmsStep
      <4> USE <3>1 DEF PInv, IInv, TypeOK
      <4>1. ASSUME NEW w \in Workers, Claim(w) \/ Fail(w) \/ Finish(w) \/ Abort(w) PROVE FALSE
        BY <4>1 DEF Claim, ClaimAs, Fail, Finish, Abort, Leave
      <4>2. ASSUME NEW w \in Workers, NEW e \in held[w],
                   ApplyOne(w, e) \/ LoseRow(w, e)
            PROVE FALSE
        BY <4>2 DEF ApplyOne, LoseRow, Leave
      <4>3. ASSUME NEW w \in Workers, NEW e \in held[w], RetryOne(w, e) PROVE FALSE
        <5>1. Leave(w) \/ UNCHANGED <<pc, key, seen, refused>>
          BY <4>3 DEF RetryOne
        <5> QED
          BY <5>1 DEF Leave
      <4>4. ASSUME NEW e \in Events, Record(e) PROVE FALSE
        BY <4>4 DEF Record, threads
      <4>5. ASSUME NEW b \in Batches, DropUnsent(b) \/ DeleteParent(b) PROVE FALSE
        BY <4>5 DEF DropUnsent, DeleteParent, threads
      <4>6. ASSUME RetryFailed PROVE FALSE
        BY <4>6 DEF RetryFailed, threads
      <4> QED
        BY <3>6, <4>1, <4>2, <4>3, <4>4, <4>5, <4>6 DEF QmsStep, SaveRow
    <3>7. CASE UNCHANGED pipelineVars
      BY <3>2, <3>7 DEF pipelineVars, vars, threads
    <3> QED
      BY <3>3, <3>4, <3>5, <3>6, <3>7 DEF PipelineNext
  <2>3. pc[u] = "applying" /\ key'[u] = key[u] /\ refused'[u] = refused[u]
    BY <2>1, <2>2, ApplyingFrame DEF PInv
  <2>4. key[u] \in Keys /\ exports[key[u]] # "unused"
    BY <2>3 DEF PInv, IInv, ThreadInv
  <2>5. packet'[key[u]] = packet[key[u]]
    BY <2>4, PacketStable
  <2> QED
    BY <2>3, <2>4, <2>5, ArriveFrame DEF PInv, AnswerInv, Valid
<1> QED
  BY <1>1, <1>2

\* What is sent had arrived; what is failed is invalid.
LEMMA SettleStep ==
    PInv /\ [PipelineNext]_pipelineVars => SentWasStored' /\ FailedWasInvalid'
<1> SUFFICES ASSUME PInv, [PipelineNext]_pipelineVars, NEW x \in Events
             PROVE  /\ status'[x] = "sent" => x \in arrived'
                    /\ status'[x] = "failed" => x \in Invalid
  BY DEF SentWasStored, FailedWasInvalid
<1>1. arrived \subseteq arrived'
  BY ArriveFrame
<1>2. CASE status'[x] = status[x]
  BY <1>1, <1>2 DEF PInv, SentWasStored, FailedWasInvalid
<1>3. CASE status'[x] # status[x] /\ status'[x] \in {"sent", "failed"}
  <2>1. PICK w \in Workers : /\ pc[w] = "applying" /\ x \in held[w]
                             /\ status'[x] = "failed" <=> x \in refused[w]
    BY <1>3, ExportStep, SettleFrame DEF PInv
  <2>2. x \in packet[key[w]]
    BY <2>1 DEF PInv, IInv, HeldInv
  <2> QED
    BY <1>1, <1>3, <2>1, <2>2 DEF PInv, AnswerInv, Valid
<1> QED
  BY <1>2, <1>3

\* What is left of a packet is never refused by the index of the log, so nobody is
\* answered with an error unless something went wrong.
LEMMA AcceptStep == PInv /\ [PipelineNext]_pipelineVars => ResendIsAccepted'
<1> SUFFICES ASSUME PInv, [PipelineNext]_pipelineVars, faults' = 0, NEW k \in Keys
             PROVE  verdict'[k] # "error"
  BY DEF ResendIsAccepted, Intake!ResendIsAccepted
<1> USE DEF PInv, Intake!TypeOK
<1>1. faults = 0 => verdict[k] # "error"
  BY DEF ResendIsAccepted, Intake!ResendIsAccepted
<1>2. CASE UNCHANGED intakeVars
  BY <1>1, <1>2 DEF intakeVars
<1>3. ASSUME NEW w \in Workers, Request(w) PROVE verdict'[k] # "error"
  BY <1>1, <1>3 DEF Request
<1>4. CASE IntakeStep
  <2>1. ASSUME NEW c \in CaseTypes, Intake!Append(c) PROVE verdict'[k] # "error"
    <3>1. ~ Intake!IndexRefuses(Intake!DropKnown(Intake!Records(current, c), c), c)
      BY DEF Intake!IndexRefuses, Intake!DropKnown
    <3> QED
      BY <1>1, <2>1, <3>1 DEF Intake!Append
  <2>2. ASSUME NEW j \in Keys, Intake!Replay(j) \/ Intake!Accept(j)
        PROVE  verdict'[k] # "error"
    BY <1>1, <2>2 DEF Intake!Replay, Intake!Accept
  <2>3. ASSUME \/ Intake!Crash
               \/ \E j \in Keys : Intake!Refuse(j) \/ Repost(j)
               \/ \E c \in CaseTypes : Intake!AppendFails(c)
        PROVE  FALSE
    BY <2>3 DEF Intake!Crash, Intake!Refuse, Intake!AppendFails, Repost
  <2>4. ASSUME NEW c \in CaseTypes, Intake!DeleteLog(c) PROVE verdict'[k] # "error"
    BY <1>1, <2>4 DEF Intake!DeleteLog
  <2>5. CASE Intake!Respond
    BY <1>1, <2>5 DEF Intake!Respond
  <2> QED
    BY <1>4, <2>1, <2>2, <2>3, <2>4, <2>5 DEF IntakeStep, Intake!Handler
<1> QED
  BY <1>2, <1>3, <1>4 DEF PipelineNext, QmsStep, Response, pipelineVars

LEMMA PipelineStep == PInv /\ [PipelineNext]_pipelineVars => PInv'
BY ExportInductive, IntakeTypeStep, IntakeStepInv, AnswerStep, SettleStep, AcceptStep DEF PInv

LEMMA PipelineStart == PipelineInit => PInv
<1> SUFFICES ASSUME PipelineInit PROVE PInv
  OBVIOUS
<1>1. IInv
  BY InductiveInit DEF PipelineInit
<1>2. Intake!TypeOK /\ IntakeInv
  BY <1>1, KeyAssumption, PipelineAssumption
     DEF PipelineInit, Intake!Init, Intake!TypeOK, IntakeInv, IInv, TypeOK
<1>3. AnswerInv /\ SentWasStored /\ FailedWasInvalid
  BY DEF PipelineInit, Init, AnswerInv, SentWasStored, FailedWasInvalid
<1>4. ResendIsAccepted
  BY DEF PipelineInit, Intake!Init, ResendIsAccepted, Intake!ResendIsAccepted
<1> QED
  BY <1>1, <1>2, <1>3, <1>4 DEF PInv

-----------------------------------------------------------------------------
(* The theorems. *)

THEOREM PipelineInductive == PipelineSpec => []PInv
<1>1. PipelineInit => PInv
  BY PipelineStart
<1>2. PInv /\ [PipelineNext]_pipelineVars => PInv'
  BY PipelineStep
<1> QED
  BY <1>1, <1>2, PTL DEF PipelineSpec

\* Types of both services, in the joined system.
THEOREM PipelineTypeCorrect == PipelineSpec => []PipelineTypeOK
<1>1. PInv => PipelineTypeOK
  BY DEF PInv, IInv, PipelineTypeOK
<1> QED
  BY <1>1, PipelineInductive, PTL

\* An event the QMS counts as SENT was stored by the analytics service, for any
\* number of exporters, packets, crashes, timeouts and deletions.
THEOREM SentIsStored == PipelineSpec => []SentWasStored
<1>1. PInv => SentWasStored
  BY DEF PInv
<1> QED
  BY <1>1, PipelineInductive, PTL

\* Only a row the intake rejects ever ends as FAILED.
THEOREM FailedIsInvalid == PipelineSpec => []FailedWasInvalid
<1>1. PInv => FailedWasInvalid
  BY DEF PInv
<1> QED
  BY <1>1, PipelineInductive, PTL

\* A receipt means that every valid row of its packet has reached its log, although
\* each append is a transaction of its own and any of them may fail.
THEOREM ReceiptIsStored == PipelineSpec => []ReceiptMeansStored
<1>1. PInv => ReceiptMeansStored
  <2> SUFFICES ASSUME PInv, NEW k \in receipts PROVE packet[k] \ Invalid \subseteq arrived
    BY DEF ReceiptMeansStored, Intake!ReceiptMeansStored
  <2> QED
    BY DEF PInv, Intake!TypeOK, IntakeInv, Valid
<1> QED
  BY <1>1, PipelineInductive, PTL

\* As long as nothing fails, no packet is answered with an error, whatever of it is
\* stored already.
THEOREM ResendAccepted == PipelineSpec => []ResendIsAccepted
<1>1. PInv => ResendIsAccepted
  BY DEF PInv
<1> QED
  BY <1>1, PipelineInductive, PTL

-----------------------------------------------------------------------------
(* The pipeline implements EventDelivery. *)

Offered == UNION {packet[k] : k \in Keys}

\* The phase of every status.
LEMMA PhaseValues ==
    /\ PhaseOf("absent") = "none"      /\ PhaseOf("pending") = "queued"
    /\ PhaseOf("processing") = "taken" /\ PhaseOf("sent") = "sent"
    /\ PhaseOf("failed") = "refused"   /\ PhaseOf("dead_letter") = "dead"
    /\ PhaseOf("deleted") = "dropped"
BY DEF PhaseOf

\* Moving a set of rows to one status moves their phases, and nothing else.
LEMMA PhaseMoves ==
    ASSUME NEW S, NEW to,
           \A e \in Events : status'[e] = IF e \in S THEN to ELSE status[e]
    PROVE  Delivery!Move(S, PhaseOf(to))
BY DEF Delivery!Move

\* A move either moves a phase or does nothing at all: who takes, takes something.
LEMMA MovesDeliver ==
    Delivery!Moves => Delivery!Next \/ UNCHANGED Delivery!vars
<1> DEFINE phases == [e \in Events |-> PhaseOf(status[e])]
<1> SUFFICES ASSUME Delivery!Moves, phases' = phases PROVE UNCHANGED Delivery!vars
  BY DEF Delivery!Next
<1>1. ASSUME NEW S \in SUBSET Events, Delivery!Take(S) PROVE FALSE
  <2>1. PICK e \in S : phases[e] = "queued"
    BY <1>1 DEF Delivery!Take, Delivery!In
  <2>2. phases'[e] = "taken"
    BY <1>1, <2>1 DEF Delivery!Take, Delivery!Move
  <2> QED
    BY <2>1, <2>2
<1>2. ASSUME NEW e \in Events, Delivery!Publish(e) \/ Delivery!Settle(e) \/ Delivery!GiveBack(e)
      PROVE  UNCHANGED Delivery!vars
  BY <1>2 DEF Delivery!Publish, Delivery!Settle, Delivery!GiveBack, Delivery!vars
<1>3. ASSUME NEW S \in SUBSET Events, Delivery!Requeue(S) \/ Delivery!Drop(S)
      PROVE  UNCHANGED Delivery!vars
  BY <1>3 DEF Delivery!Requeue, Delivery!Drop, Delivery!vars
<1> QED
  BY <1>1, <1>2, <1>3 DEF Delivery!Moves

\* Every step of the QMS is a step of the delivery, or changes nothing it shows.
LEMMA QmsDelivers ==
    PInv /\ QmsStep => Delivery!Next \/ UNCHANGED Delivery!vars
<1> SUFFICES ASSUME PInv, QmsStep
             PROVE  Delivery!Next \/ UNCHANGED Delivery!vars
  OBVIOUS
<1>0. TypeOK /\ arrived' = arrived
  BY DEF PInv, IInv, QmsStep, intakeVars
<1>1. ASSUME NEW e \in Events, Record(e) PROVE Delivery!Moves
  <2>1. \A f \in Events : status'[f] = IF f \in {e} THEN "pending" ELSE status[f]
    BY <1>0, <1>1 DEF Record, TypeOK
  <2>2. Delivery!Move({e}, "queued")
    BY <2>1, PhaseMoves, PhaseValues
  <2>3. Delivery!In({e}, {"none"})
    BY <1>1, PhaseValues DEF Record, Delivery!In
  <2>4. packet' = packet
    BY <1>1 DEF Record, books
  <2>5. Delivery!Publish(e)
    BY <1>0, <2>2, <2>3, <2>4 DEF Delivery!Publish
  <2> QED
    BY <2>5 DEF Delivery!Moves
<1>2. ASSUME NEW b \in Batches, DropUnsent(b) PROVE Delivery!Moves
  <2> DEFINE S == {e \in Events : linked[e] /\ Owner[e] = b /\ status[e] \notin {"sent", "deleted"}}
  <2>1. \A f \in Events : status'[f] = IF f \in S THEN "deleted" ELSE status[f]
    BY <1>2 DEF DropUnsent
  <2>2. Delivery!Move(S, "dropped")
    BY <2>1, PhaseMoves, PhaseValues
  <2>3. \A e \in S : status[e] \in {"pending", "processing", "failed", "dead_letter"}
    BY <1>0 DEF PInv, IInv, LinkedInv, TypeOK, RowStatus
  <2>4. Delivery!In(S, {"queued", "taken", "refused", "dead"})
    BY <2>3, PhaseValues DEF Delivery!In
  <2>5. packet' = packet
    BY <1>2 DEF DropUnsent, books
  <2>6. Delivery!Drop(S)
    BY <1>0, <2>2, <2>4, <2>5 DEF Delivery!Drop
  <2>7. S \in SUBSET Events
    OBVIOUS
  <2> QED
    BY <2>6, <2>7 DEF Delivery!Moves
<1>3. ASSUME RetryFailed PROVE Delivery!Moves
  <2> DEFINE S == {e \in Events : status[e] = "failed"}
  <2>1. \A f \in Events : status'[f] = IF f \in S THEN "pending" ELSE status[f]
    BY <1>3 DEF RetryFailed
  <2>2. Delivery!Move(S, "queued")
    BY <2>1, PhaseMoves, PhaseValues
  <2>3. S # {} /\ Delivery!In(S, {"refused"})
    BY <1>3, PhaseValues DEF RetryFailed, Delivery!In
  <2>4. packet' = packet
    BY <1>3 DEF RetryFailed, books
  <2>5. Delivery!Requeue(S)
    BY <1>0, <2>2, <2>3, <2>4 DEF Delivery!Requeue
  <2>6. S \in SUBSET Events
    OBVIOUS
  <2> QED
    BY <2>5, <2>6 DEF Delivery!Moves
<1>4. ASSUME NEW w \in Workers, NEW k \in Keys, ClaimAs(w, k) PROVE Delivery!Moves
  <2>0. PICK S \in SUBSET Events : S = Oldest(Exportable, BatchSize)
    BY OldestSubset DEF Exportable
  <2>1. S # {} /\ S \in SUBSET Events /\ \A e \in S : status[e] = "pending"
    BY <1>4, <2>0, OldestSubset DEF ClaimAs, Exportable
  <2>2. \A f \in Events : status'[f] = IF f \in S THEN "processing" ELSE status[f]
    BY <1>4, <2>0 DEF ClaimAs
  <2>3. packet' = [packet EXCEPT ![k] = S] /\ packet[k] = {}
    BY <1>4, <2>0 DEF ClaimAs, PInv, IInv, PacketInv
  <2>4. Delivery!Move(S, "taken")
    BY <2>2, PhaseMoves, PhaseValues
  <2>5. Delivery!In(S, {"queued"})
    BY <2>1, PhaseValues DEF Delivery!In
  <2>6. Offered' = Offered \cup S
    <3>1. \A e : e \in Offered' => e \in Offered \cup S
      BY <1>0, <2>3 DEF Offered, TypeOK
    <3>2. \A e : e \in Offered => e \in Offered'
      <4> SUFFICES ASSUME NEW e, NEW j \in Keys, e \in packet[j] PROVE e \in Offered'
        BY DEF Offered
      <4>1. j # k /\ packet'[j] = packet[j]
        BY <1>0, <2>3 DEF TypeOK
      <4> QED
        BY <4>1 DEF Offered
    <3>3. \A e \in S : e \in Offered'
      <4>1. packet'[k] = S
        BY <1>0, <2>3 DEF TypeOK
      <4> QED
        BY <4>1 DEF Offered
    <3> QED
      BY <3>1, <3>2, <3>3
  <2>7. Delivery!Take(S)
    BY <1>0, <2>1, <2>4, <2>5, <2>6 DEF Delivery!Take, Offered
  <2> QED
    BY <2>7 DEF Delivery!Moves
<1>5. ASSUME NEW w \in Workers, NEW e \in held[w], ApplyOne(w, e) PROVE Delivery!Moves
  <2>1. e \in Events /\ status[e] = "processing" /\ e \in packet[key[w]]
    <3>1. pc[w] = "applying" /\ status[e] # "deleted"
      BY <1>5 DEF ApplyOne
    <3>2. held[w] \subseteq packet[key[w]]
      BY <3>1 DEF PInv, IInv, HeldInv
    <3>3. status[e] = "processing"
      BY <3>1 DEF PInv, IInv, ClaimIsExclusive
    <3> QED
      BY <1>0, <3>2, <3>3 DEF TypeOK
  <2>2. /\ e \in refused[w] <=> e \in Invalid
        /\ e \notin Invalid => e \in arrived
    BY <1>5, <2>1 DEF ApplyOne, PInv, AnswerInv, Valid
  <2>3. packet' = packet
    BY <1>5 DEF ApplyOne, books
  <2>4. Delivery!In({e}, {"taken"})
    BY <2>1, PhaseValues DEF Delivery!In
  <2>5. CASE e \in Invalid
    <3>1. \A f \in Events : status'[f] = IF f \in {e} THEN "failed" ELSE status[f]
      BY <1>0, <1>5, <2>2, <2>5 DEF ApplyOne, TypeOK
    <3>2. Delivery!Move({e}, "refused")
      BY <3>1, PhaseMoves, PhaseValues
    <3>3. Delivery!Settle(e)
      BY <1>0, <2>3, <2>4, <2>5, <3>2 DEF Delivery!Settle
    <3> QED
      BY <2>1, <3>3 DEF Delivery!Moves
  <2>6. CASE e \notin Invalid
    <3>1. \A f \in Events : status'[f] = IF f \in {e} THEN "sent" ELSE status[f]
      BY <1>0, <1>5, <2>2, <2>6 DEF ApplyOne, TypeOK
    <3>2. Delivery!Move({e}, "sent")
      BY <3>1, PhaseMoves, PhaseValues
    <3>3. Delivery!Settle(e)
      BY <1>0, <2>2, <2>3, <2>4, <2>6, <3>2 DEF Delivery!Settle
    <3> QED
      BY <2>1, <3>3 DEF Delivery!Moves
  <2> QED
    BY <2>5, <2>6
<1>6. ASSUME NEW w \in Workers, NEW e \in held[w], RetryOne(w, e) PROVE Delivery!Moves
  <2>1. e \in Events /\ status[e] = "processing"
    BY <1>0, <1>6 DEF RetryOne, PInv, IInv, TypeOK, ClaimIsExclusive
  <2>2. packet' = packet
    BY <1>6 DEF RetryOne, books
  <2>3. \/ \A f \in Events : status'[f] = IF f \in {e} THEN "dead_letter" ELSE status[f]
        \/ \A f \in Events : status'[f] = IF f \in {e} THEN "pending" ELSE status[f]
    BY <1>0, <1>6, <2>1 DEF RetryOne, TypeOK
  <2>4. Delivery!Move({e}, "dead") \/ Delivery!Move({e}, "queued")
    BY <2>3, PhaseMoves, PhaseValues
  <2>5. Delivery!In({e}, {"taken"})
    BY <2>1, PhaseValues DEF Delivery!In
  <2>6. Delivery!GiveBack(e)
    BY <1>0, <2>2, <2>4, <2>5 DEF Delivery!GiveBack
  <2> QED
    BY <2>1, <2>6 DEF Delivery!Moves
<1>7. ASSUME NEW w \in Workers,
             Fail(w) \/ Finish(w) \/ Abort(w) \/ \E e \in held[w] : LoseRow(w, e)
      PROVE  UNCHANGED Delivery!vars
  BY <1>0, <1>7 DEF Fail, Finish, Abort, LoseRow, rows, books, Delivery!vars
<1>8. ASSUME NEW b \in Batches, DeleteParent(b)
      PROVE  UNCHANGED Delivery!vars
  BY <1>0, <1>8 DEF DeleteParent, books, Delivery!vars
<1> QED
  BY <1>1, <1>2, <1>3, <1>4, <1>5, <1>6, <1>7, <1>8, MovesDeliver DEF QmsStep, Claim, SaveRow

\* Every step of the intake stores rows that were offered, or shows nothing.
LEMMA IntakeDelivers ==
    PInv /\ IntakeStep => Delivery!Next \/ UNCHANGED Delivery!vars
<1> SUFFICES ASSUME PInv, IntakeStep
             PROVE  Delivery!Next \/ UNCHANGED Delivery!vars
  OBVIOUS
<1>1. [PipelineNext]_pipelineVars
  BY DEF PipelineNext
<1>2. status' = status /\ packet' = packet
  BY DEF IntakeStep, vars, rows, books
<1> DEFINE S == arrived' \ arrived
<1>3. arrived \subseteq arrived' /\ \A e \in S : \E k \in Keys : e \in Valid(k)
  BY <1>1, ArriveFrame
<1>4. S \subseteq Offered \ Invalid
  BY <1>3 DEF Valid, Offered
<1>5. S \in SUBSET Events
  BY <1>3 DEF Valid, PInv, IInv, TypeOK
<1>6. arrived' = arrived \cup S
  BY <1>3
<1> HIDE DEF S
<1>7. Delivery!Arrive(S)
  BY <1>2, <1>4, <1>6 DEF Delivery!Arrive, Offered
<1>8. CASE arrived' = arrived
  BY <1>2, <1>8 DEF Delivery!vars, Offered
<1>9. CASE arrived' # arrived
  BY <1>5, <1>7, <1>9 DEF Delivery!Next
<1> QED
  BY <1>8, <1>9

\* The two services implement EventDelivery: an event is queued, taken, and
\* settled as sent only when it has arrived and as refused only when invalid.
THEOREM Implements == PipelineSpec => ImplementsDelivery
<1>1. PipelineInit => Delivery!Init
  BY PhaseValues DEF PipelineInit, Init, Intake!Init, Delivery!Init
<1>2. PInv /\ [PipelineNext]_pipelineVars => [Delivery!Next]_Delivery!vars
  <2> SUFFICES ASSUME PInv, [PipelineNext]_pipelineVars
               PROVE  [Delivery!Next]_Delivery!vars
    OBVIOUS
  <2>1. ASSUME NEW w \in Workers, Request(w) \/ Response(w) PROVE UNCHANGED Delivery!vars
    BY <2>1 DEF Request, Response, Send, Answer, rows, books, intakeVars, Delivery!vars
  <2>2. UNCHANGED pipelineVars => UNCHANGED Delivery!vars
    BY DEF pipelineVars, vars, rows, books, intakeVars, Delivery!vars
  <2> QED
    BY <2>1, <2>2, QmsDelivers, IntakeDelivers DEF PipelineNext
<1> QED
  BY <1>1, <1>2, PipelineInductive, PTL DEF PipelineSpec, ImplementsDelivery, Delivery!Spec

-----------------------------------------------------------------------------
(* The other way into a log: the connector to 1C *)

(* What a document becomes when it is written; from then on only whether it is posted
   changes. *)
Document == [kind : 1 .. DocKinds, client : Clients, day : Nat, posted : BOOLEAN]
Written(d) == doc[d] \in Document

Event == [id : Docs, case : Int \X Int, activity : Int, time : Int]
Entry == [id : Docs, case : Int \X Int, activity : Int, time : Int,
          all : BOOLEAN, read : SUBSET Docs]

OneCTypeOK ==
  /\ today \in Nat /\ runs \in Nat
  /\ doc \in [Docs -> Document \cup {NoDoc}]
  /\ run \in [at : {"idle", "reading"}, since : Nat, until : Nat, names : BOOLEAN,
              all : BOOLEAN, kind : Nat \ {0}, skip : Nat, rows : Seq(Event),
              got : Seq(Event), due : SUBSET Docs, taken : SUBSET Docs]
  /\ log \in Seq(Entry)
  /\ missed \subseteq [docs : SUBSET Docs, taken : SUBSET Docs]

(* What was read and what is stored is what the documents say, the client by name or by
   the head of the key. *)
RowsAreTrue ==
  \A e \in Range(run.rows) \cup Range(run.got) : Written(e.id) /\ e = EventOf(e.id)
OfDocument(x) ==
  /\ Written(x.id) /\ x.activity = doc[x.id].kind /\ x.time = doc[x.id].day
  /\ \E names \in BOOLEAN : x.case = CaseOf(x.id, names)
LogIsTrue == \A x \in Range(log) : OfDocument(x)

(* What is due is written and posted; what an import has lost of it is unread and behind
   the place the import has come to. *)
DueIsPosted == \A d \in run.due : Written(d) /\ InWindow(d, run.since, run.until)
RowsHave(d) == \E e \in Range(run.rows) : e.id = d
Lost ==
  {d \in run.due : /\ d \notin Read
                   /\ \/ doc[d].kind < run.kind
                      \/ doc[d].kind = run.kind /\ ~ RowsHave(d) /\ Place(d) < run.skip}
UpTo(S, d) == {x \in S : x = d \/ Sooner(x, d)}
Ahead(S, d) == {x \in S : Sooner(x, d)}

(* Up to any document that is due, no more are lost than were taken back before it. *)
LossesAreExplained ==
  /\ \A e \in run.taken : Written(e) /\ ~ doc[e].posted
  /\ \A d \in run.due : Cardinality(UpTo(Lost, d)) <= Cardinality(Ahead(run.taken, d))
MissedAreWritten == \A m \in missed : \A d \in m.docs \cup m.taken : Written(d)

(* The second half of RepeatsAreExplained, of every moment. *)
Explained(i, j) ==
  \/ log[i].all \/ log[j].all
  \/ log[i].id \notin log[j].read
  \/ log[j].time <= log[i].time
AllExplained ==
  \A i, j \in DOMAIN log : i < j /\ Alike(log[i], log[j]) => Explained(i, j)

OneCInv == /\ RowsAreTrue /\ LogIsTrue
           /\ DueIsPosted /\ LossesAreExplained /\ MissedAreWritten /\ SkipsAreExplained
           /\ AllExplained /\ StoredOnce

-----------------------------------------------------------------------------

(* A strict total order of S, as a set of pairs. *)
Orders(R, S) ==
  /\ \A x \in S : <<x, x>> \notin R
  /\ \A x, y \in S : x # y => <<x, y>> \in R \/ <<y, x>> \in R
  /\ \A x, y, z \in S : <<x, y>> \in R /\ <<y, z>> \in R => <<x, z>> \in R

(* How many elements come before one: more, the later it comes. *)
LEMMA BeforeGrows ==
  ASSUME NEW S, IsFiniteSet(S), NEW R, Orders(R, S), NEW x \in S, NEW y \in S,
         <<x, y>> \in R
  PROVE  /\ Cardinality(Before(S, R, x)) \in Nat /\ Cardinality(Before(S, R, y)) \in Nat
         /\ Cardinality(Before(S, R, x)) < Cardinality(Before(S, R, y))
<1> DEFINE X == Before(S, R, x)
           Y == Before(S, R, y)
<1>1. X \subseteq Y /\ x \in Y /\ x \notin X /\ Y \subseteq S
  BY DEF Before, Orders
<1> HIDE DEF X, Y
<1>2. IsFiniteSet(Y) /\ Cardinality(Y) \in Nat
  BY <1>1, FS_Subset, FS_CardinalityType
<1>3. IsFiniteSet(X) /\ Cardinality(X) \in Nat /\ Cardinality(X) <= Cardinality(Y)
      /\ Cardinality(X) # Cardinality(Y)
  BY <1>1, <1>2, FS_Subset, FS_CardinalityType
<1> QED BY <1>2, <1>3 DEF X, Y

(* Every element has its place, and between two places the order is that of R. *)
LEMMA InOrderHas ==
  ASSUME NEW S, IsFiniteSet(S), NEW R, Orders(R, S)
  PROVE  /\ InOrder(S, R) \in Seq(S) /\ Len(InOrder(S, R)) = Cardinality(S)
         /\ DOMAIN InOrder(S, R) = 1 .. Cardinality(S)
         /\ \A x \in S : /\ Cardinality(Before(S, R, x)) + 1 \in 1 .. Cardinality(S)
                         /\ InOrder(S, R)[Cardinality(Before(S, R, x)) + 1] = x
         /\ \A i, j \in 1 .. Cardinality(S) :
              i < j => <<InOrder(S, R)[i], InOrder(S, R)[j]>> \in R
<1> DEFINE n == Cardinality(S)
           rank == [x \in S |-> Cardinality(Before(S, R, x))]
           q == [k \in 1 .. n |-> CHOOSE x \in S : Cardinality(Before(S, R, x)) = k - 1]
<1>1. n \in Nat
  BY FS_CardinalityType
<1>2. ASSUME NEW x \in S
      PROVE  rank[x] \in 0 .. n - 1
  <2> DEFINE X == Before(S, R, x)
  <2>1. X \subseteq S \ {x}
    BY DEF Before, Orders
  <2> HIDE DEF X
  <2>2. IsFiniteSet(S \ {x}) /\ Cardinality(S \ {x}) = n - 1
    BY FS_RemoveElement
  <2>3. IsFiniteSet(X) /\ Cardinality(X) <= Cardinality(S \ {x}) /\ Cardinality(X) \in Nat
    BY <2>1, <2>2, FS_Subset, FS_CardinalityType
  <2> QED BY <1>1, <2>2, <2>3 DEF X
<1>3. ASSUME NEW x \in S, NEW y \in S, <<x, y>> \in R
      PROVE  rank[x] < rank[y]
  BY <1>3, BeforeGrows
<1> HIDE DEF rank
<1>4. ASSUME NEW x \in S, NEW y \in S, rank[x] = rank[y]
      PROVE  x = y
  <2>1. ~ rank[x] < rank[y] /\ ~ rank[y] < rank[x]
    BY <1>1, <1>2, <1>4
  <2>2. <<x, y>> \notin R /\ <<y, x>> \notin R
    BY <2>1, <1>3
  <2> QED BY <2>2 DEF Orders
<1>5. rank \in Injection(S, 0 .. n - 1)
  <2>1. rank \in [S -> 0 .. n - 1]
    BY <1>2 DEF rank
  <2> QED BY <2>1, <1>4 DEF Injection, IsInjective
<1>6. IsFiniteSet(0 .. n - 1) /\ Cardinality(0 .. n - 1) = n
  BY <1>1, FS_Interval
<1>7. rank \in Surjection(S, 0 .. n - 1)
  BY <1>5, <1>6, FS_Injection
<1>8. ASSUME NEW k \in 1 .. n
      PROVE  q[k] \in S /\ rank[q[k]] = k - 1
  <2>1. k - 1 \in 0 .. n - 1
    BY <1>1
  <2>2. PICK x \in S : rank[x] = k - 1
    BY <1>7, <2>1 DEF Surjection
  <2>3. \A y \in S : rank[y] = Cardinality(Before(S, R, y))
    BY DEF rank
  <2> QED BY <2>2, <2>3
<1>9. q \in Seq(S) /\ Len(q) = n /\ DOMAIN q = 1 .. n
  BY <1>1, <1>8
<1>10. InOrder(S, R) = q
  <2>1. <<>> \o q = q
    BY <1>9, ConcatEmptySeq
  <2> QED BY <2>1 DEF InOrder
<1>11. ASSUME NEW x \in S
       PROVE  /\ rank[x] + 1 \in 1 .. n
              /\ q[rank[x] + 1] = x
  <2>1. rank[x] + 1 \in 1 .. n
    BY <1>1, <1>2
  <2>2. rank[q[rank[x] + 1]] = rank[x]
    BY <1>1, <1>2, <1>8, <2>1
  <2> QED BY <2>1, <2>2, <1>4, <1>8
<1>12. ASSUME NEW i \in 1 .. n, NEW j \in 1 .. n, i < j
       PROVE  <<q[i], q[j]>> \in R
  <2>1. rank[q[i]] < rank[q[j]]
    BY <1>1, <1>8, <1>12
  <2>2. ~ rank[q[j]] < rank[q[i]] /\ q[i] # q[j]
    BY <1>1, <1>8, <1>12
  <2> QED BY <2>2, <1>3, <1>8 DEF Orders
<1>13. \A x \in S : rank[x] = Cardinality(Before(S, R, x))
  BY DEF rank
<1> HIDE DEF q
<1> QED BY <1>9, <1>10, <1>11, <1>12, <1>13

-----------------------------------------------------------------------------
(* Sequences of events *)

LEMMA PickedHas ==
  ASSUME NEW T, NEW s \in Seq(T), NEW I \in SUBSET DOMAIN s, NEW q \in Seq(I)
  PROVE  /\ Picked(s, q) \in Seq(T) /\ DOMAIN Picked(s, q) = DOMAIN q
         /\ \A k \in DOMAIN q : q[k] \in I /\ Picked(s, q)[k] = s[q[k]]
         /\ \A x \in Range(Picked(s, q)) : \E i \in I : x = s[i]
<1>1. \A k \in DOMAIN q : q[k] \in I /\ s[q[k]] \in T
  BY ElementOfSeq, LenProperties
<1>2. DOMAIN q = 1 .. Len(q) /\ Len(q) \in Nat
  BY LenProperties
<1>3. Picked(s, q) = [k \in 1 .. Len(q) |-> s[q[k]]]
  BY <1>2 DEF Picked
<1> QED BY <1>1, <1>2, <1>3 DEF Range

(* Places of a sequence in ascending order. *)
LEMMA AscendingHas ==
  ASSUME NEW T, NEW s \in Seq(T), NEW I \in SUBSET DOMAIN s
  PROVE  /\ Ascending(I) \in Seq(I) /\ DOMAIN Ascending(I) \subseteq Nat
         /\ \A k \in DOMAIN Ascending(I) : Ascending(I)[k] \in I
         /\ \A k, l \in DOMAIN Ascending(I) : k < l => Ascending(I)[k] < Ascending(I)[l]
<1> DEFINE R == {p \in I \X I : p[1] < p[2]}
           q == InOrder(I, R)
<1>1. IsFiniteSet(I) /\ I \subseteq Nat
  <2>1. DOMAIN s = 1 .. Len(s) /\ Len(s) \in Nat
    BY LenProperties
  <2>2. IsFiniteSet(1 .. Len(s))
    BY <2>1, FS_Interval
  <2> QED BY <2>1, <2>2, FS_Subset
<1>2. \A i, j : <<i, j>> \in R <=> i \in I /\ j \in I /\ i < j
  OBVIOUS
<1>3. Ascending(I) = q
  BY DEF Ascending
<1> HIDE DEF R
<1>4. Orders(R, I)
  BY <1>1, <1>2 DEF Orders
<1>5. /\ q \in Seq(I) /\ DOMAIN q = 1 .. Cardinality(I)
      /\ \A i, j \in 1 .. Cardinality(I) : i < j => <<q[i], q[j]>> \in R
  BY <1>1, <1>4, InOrderHas
<1> HIDE DEF q
<1>6. \A k \in DOMAIN q : q[k] \in I
  BY <1>5, ElementOfSeq, LenProperties
<1>7. DOMAIN q \subseteq Nat
  BY <1>5, LenProperties
<1>8. \A k, l \in DOMAIN q : k < l => q[k] < q[l]
  BY <1>2, <1>5
<1> QED BY <1>3, <1>5, <1>6, <1>7, <1>8

(* The elements at some places, in the order of the places. *)
LEMMA PickedWhereHas ==
  ASSUME NEW T, NEW s \in Seq(T), NEW I \in SUBSET DOMAIN s
  PROVE  /\ PickedWhere(s, I) \in Seq(T)
         /\ DOMAIN PickedWhere(s, I) = DOMAIN Ascending(I)
         /\ \A k \in DOMAIN Ascending(I) : PickedWhere(s, I)[k] = s[Ascending(I)[k]]
         /\ \A x \in Range(PickedWhere(s, I)) : \E i \in I : x = s[i]
<1>1. Ascending(I) \in Seq(I)
  BY AscendingHas
<1> QED BY <1>1, PickedHas DEF PickedWhere

(* The rows of a sorted sequence are those of the sequence, in the order. *)
LEMMA SortedHas ==
  ASSUME NEW T, NEW s \in Seq(T), NEW R, Orders(R, DOMAIN s),
         NEW q, q = InOrder(DOMAIN s, R)
  PROVE  /\ Picked(s, q) \in Seq(T) /\ Range(Picked(s, q)) = Range(s)
         /\ DOMAIN Picked(s, q) = DOMAIN q
         /\ \A i \in DOMAIN q : q[i] \in DOMAIN s /\ Picked(s, q)[i] = s[q[i]]
         /\ \A i, j \in DOMAIN q : i < j => <<q[i], q[j]>> \in R
<1> DEFINE S == DOMAIN s
           t == Picked(s, q)
<1>1. IsFiniteSet(S)
  <2>1. DOMAIN s = 1 .. Len(s) /\ Len(s) \in Nat
    BY LenProperties
  <2> QED BY <2>1, FS_Interval
<1>2. q = InOrder(S, R) /\ Orders(R, S) /\ S \in SUBSET DOMAIN s
  OBVIOUS
<1> HIDE DEF S
<1>3. /\ q \in Seq(S) /\ DOMAIN q = 1 .. Cardinality(S)
      /\ \A x \in S : /\ Cardinality(Before(S, R, x)) + 1 \in 1 .. Cardinality(S)
                      /\ q[Cardinality(Before(S, R, x)) + 1] = x
      /\ \A i, j \in 1 .. Cardinality(S) : i < j => <<q[i], q[j]>> \in R
  BY <1>1, <1>2, InOrderHas
<1>4. /\ t \in Seq(T) /\ DOMAIN t = DOMAIN q
      /\ \A k \in DOMAIN q : q[k] \in S /\ t[k] = s[q[k]]
      /\ \A x \in Range(t) : \E i \in S : x = s[i]
  BY <1>2, <1>3, PickedHas
<1> HIDE DEF t
<1>5. \A x \in S : \E k \in DOMAIN q : q[k] = x
  BY <1>3
<1>6. Range(t) = Range(s)
  BY <1>4, <1>5 DEF Range, S
<1>7. \A i, j \in DOMAIN q : i < j => <<q[i], q[j]>> \in R
  BY <1>3
<1> QED BY <1>4, <1>6, <1>7 DEF t, S

(* No two are of one document. *)
Distinct(s) == \A i, j \in DOMAIN s : s[i].id = s[j].id => i = j

(* Ordering the events of a packet loses none, adds none and repeats none. *)
LEMMA OrderedHas ==
  ASSUME NEW s \in Seq(Event)
  PROVE  /\ Ordered(s) \in Seq(Event) /\ Range(Ordered(s)) = Range(s)
         /\ Distinct(s) => Distinct(Ordered(s))
<1> DEFINE R == {p \in Rows(s) \X Rows(s) : Earlier(s[p[1]], p[1], s[p[2]], p[2])}
<1>1. \A i \in DOMAIN s : i \in Nat /\ s[i] \in Event
  BY ElementOfSeq, LenProperties
<1>2. \A i \in DOMAIN s : /\ s[i].case[1] \in Int /\ s[i].case[2] \in Int
                          /\ s[i].time \in Int
                          /\ s[i].case = <<s[i].case[1], s[i].case[2]>>
  BY <1>1 DEF Event
<1>3. Orders(R, DOMAIN s)
  <2>1. \A i, j \in DOMAIN s : <<i, j>> \in R <=> Earlier(s[i], i, s[j], j)
    BY DEF Rows
  <2>2. \A i \in DOMAIN s : ~ Earlier(s[i], i, s[i], i)
    BY <1>1, <1>2 DEF Earlier, Less
  <2>3. \A i, j \in DOMAIN s :
          s[i].case = s[j].case <=> /\ s[i].case[1] = s[j].case[1]
                                    /\ s[i].case[2] = s[j].case[2]
    BY <1>2
  <2>4. ASSUME NEW i \in DOMAIN s, NEW j \in DOMAIN s, i # j
        PROVE  Earlier(s[i], i, s[j], j) \/ Earlier(s[j], j, s[i], i)
    <3>1. CASE s[i].case = s[j].case
      BY <1>1, <1>2, <2>4, <3>1 DEF Earlier
    <3>2. CASE s[i].case # s[j].case
      <4>1. Less(s[i].case, s[j].case) \/ Less(s[j].case, s[i].case)
        BY <1>2, <2>3, <3>2 DEF Less
      <4> QED BY <4>1 DEF Earlier
    <3> QED BY <3>1, <3>2
  <2>5. ASSUME NEW i \in DOMAIN s, NEW j \in DOMAIN s, NEW k \in DOMAIN s,
               Earlier(s[i], i, s[j], j), Earlier(s[j], j, s[k], k)
        PROVE  Earlier(s[i], i, s[k], k)
    <3>1. Less(s[i].case, s[j].case) /\ Less(s[j].case, s[k].case) => Less(s[i].case, s[k].case)
      BY <1>2 DEF Less
    <3>2. CASE Less(s[i].case, s[j].case) \/ Less(s[j].case, s[k].case)
      BY <2>5, <3>1, <3>2 DEF Earlier
    <3>3. CASE ~ Less(s[i].case, s[j].case) /\ ~ Less(s[j].case, s[k].case)
      <4>1. s[i].case = s[j].case /\ s[j].case = s[k].case
        BY <2>5, <3>3 DEF Earlier
      <4>2. s[i].time < s[k].time \/ (s[i].time = s[k].time /\ i < k)
        BY <1>1, <1>2, <2>5, <3>3 DEF Earlier
      <4> QED BY <4>1, <4>2 DEF Earlier
    <3> QED BY <3>2, <3>3
  <2> HIDE DEF R
  <2> QED BY <2>1, <2>2, <2>4, <2>5 DEF Orders
<1>4. Ordered(s) = Picked(s, InOrder(DOMAIN s, R))
  BY DEF Ordered, Rows
<1> HIDE DEF R
<1> DEFINE q == InOrder(DOMAIN s, R)
<1>5. /\ Picked(s, q) \in Seq(Event) /\ Range(Picked(s, q)) = Range(s)
      /\ DOMAIN Picked(s, q) = DOMAIN q
      /\ \A i \in DOMAIN q : q[i] \in DOMAIN s /\ Picked(s, q)[i] = s[q[i]]
      /\ \A i, j \in DOMAIN q : i < j => <<q[i], q[j]>> \in R
  BY <1>3, SortedHas
<1>6. Ordered(s) = Picked(s, q)
  BY <1>4
<1> HIDE DEF q
<1>7. ASSUME Distinct(s), NEW i \in DOMAIN q, NEW j \in DOMAIN q,
             Picked(s, q)[i].id = Picked(s, q)[j].id
      PROVE  i = j
  <2>1. q[i] \in DOMAIN s /\ q[i] = q[j]
    BY <1>5, <1>7 DEF Distinct
  <2>2. ~ i < j /\ ~ j < i
    BY <1>3, <1>5, <2>1 DEF Orders
  <2>3. i \in Nat /\ j \in Nat
    BY <1>5, LenProperties
  <2> QED BY <2>2, <2>3
<1> QED BY <1>5, <1>6, <1>7 DEF Distinct

(* The events by time. *)
LEMMA ByTimeHas ==
  ASSUME NEW s \in Seq(Event)
  PROVE  /\ ByTime(s) \in Seq(Event) /\ Range(ByTime(s)) = Range(s)
         /\ \A i, j \in DOMAIN ByTime(s) : i < j => ByTime(s)[i].time <= ByTime(s)[j].time
<1> DEFINE R == {p \in Rows(s) \X Rows(s) : \/ s[p[1]].time < s[p[2]].time
                                            \/ s[p[1]].time = s[p[2]].time /\ p[1] < p[2]}
           q == InOrder(DOMAIN s, R)
<1>1. \A i \in DOMAIN s : i \in Nat /\ s[i].time \in Int
  <2>1. \A i \in DOMAIN s : i \in Nat /\ s[i] \in Event
    BY ElementOfSeq, LenProperties
  <2> QED BY <2>1 DEF Event
<1>2. \A i, j \in DOMAIN s :
        <<i, j>> \in R <=> s[i].time < s[j].time \/ (s[i].time = s[j].time /\ i < j)
  BY DEF Rows
<1>3. ByTime(s) = Picked(s, q)
  BY DEF ByTime, Rows
<1> HIDE DEF R
<1>4. Orders(R, DOMAIN s)
  BY <1>1, <1>2 DEF Orders
<1>5. /\ Picked(s, q) \in Seq(Event) /\ Range(Picked(s, q)) = Range(s)
      /\ DOMAIN Picked(s, q) = DOMAIN q
      /\ \A i \in DOMAIN q : q[i] \in DOMAIN s /\ Picked(s, q)[i] = s[q[i]]
      /\ \A i, j \in DOMAIN q : i < j => <<q[i], q[j]>> \in R
  BY <1>4, SortedHas
<1> HIDE DEF q
<1>6. ASSUME NEW i \in DOMAIN q, NEW j \in DOMAIN q, i < j
      PROVE  Picked(s, q)[i].time <= Picked(s, q)[j].time
  <2>1. q[i] \in DOMAIN s /\ q[j] \in DOMAIN s /\ <<q[i], q[j]>> \in R
    BY <1>5, <1>6
  <2>2. s[q[i]].time <= s[q[j]].time
    BY <1>1, <1>2, <2>1
  <2> QED BY <1>5, <2>2
<1> QED BY <1>3, <1>5, <1>6

(* What collapse_repeats keeps is the earliest of its case and activity. *)
LEMMA FirstOfEachHas ==
  ASSUME NEW s \in Seq(Event)
  PROVE  /\ FirstOfEach(s) \in Seq(Event) /\ Range(FirstOfEach(s)) \subseteq Range(s)
         /\ \A x \in Range(FirstOfEach(s)), y \in Range(s) : Alike(x, y) => x.time <= y.time
<1> DEFINE t == ByTime(s)
           I == {i \in DOMAIN t : \A j \in DOMAIN t : Alike(t[i], t[j]) => i <= j}
<1>1. /\ t \in Seq(Event) /\ Range(t) = Range(s)
      /\ \A i, j \in DOMAIN t : i < j => t[i].time <= t[j].time
  BY ByTimeHas
<1>2. FirstOfEach(s) = PickedWhere(t, I)
  BY DEF FirstOfEach
<1> HIDE DEF t
<1>3. \A i \in DOMAIN t : i \in Nat /\ t[i] \in Event /\ t[i].time \in Int
  <2>1. \A i \in DOMAIN t : i \in Nat /\ t[i] \in Event
    BY <1>1, ElementOfSeq, LenProperties
  <2> QED BY <2>1 DEF Event
<1>4. /\ PickedWhere(t, I) \in Seq(Event)
      /\ \A x \in Range(PickedWhere(t, I)) : \E i \in I : x = t[i]
  BY <1>1, PickedWhereHas
<1>5. \A i \in I, j \in DOMAIN t : Alike(t[i], t[j]) => t[i].time <= t[j].time
  BY <1>1, <1>3
<1>6. \A i \in I : t[i] \in Range(s)
  BY <1>1 DEF Range
<1>7. \A y \in Range(s) : \E j \in DOMAIN t : y = t[j]
  BY <1>1 DEF Range
<1>8. I \subseteq DOMAIN t
  OBVIOUS
<1> HIDE DEF I
<1> QED BY <1>2, <1>4, <1>5, <1>6, <1>7, <1>8

(* The importer adds none, drops those that are stored and keeps one of each document. *)
LEMMA UnknownHas ==
  ASSUME NEW s \in Seq(Event)
  PROVE  /\ Unknown(s) \in Seq(Event) /\ Range(Unknown(s)) \subseteq Range(s)
         /\ \A x \in Range(Unknown(s)) : ~ StoredAlready(x.id)
         /\ Distinct(Unknown(s))
<1> DEFINE I == {i \in DOMAIN s : ~ StoredAlready(s[i].id)
                                 /\ \A j \in 1 .. (i - 1) : s[j].id # s[i].id}
           q == Ascending(I)
<1>1. Unknown(s) = PickedWhere(s, I) /\ I \subseteq DOMAIN s
  BY DEF Unknown
<1>2. \A i \in I : /\ i \in Nat /\ i >= 1 /\ ~ StoredAlready(s[i].id)
                  /\ \A j \in 1 .. (i - 1) : s[j].id # s[i].id
  BY LenProperties
<1> HIDE DEF I
<1>3. /\ PickedWhere(s, I) \in Seq(Event) /\ DOMAIN PickedWhere(s, I) = DOMAIN q
      /\ \A k \in DOMAIN q : PickedWhere(s, I)[k] = s[q[k]]
      /\ \A x \in Range(PickedWhere(s, I)) : \E i \in I : x = s[i]
  BY <1>1, PickedWhereHas
<1>4. /\ DOMAIN q \subseteq Nat /\ \A k \in DOMAIN q : q[k] \in I
      /\ \A k, l \in DOMAIN q : k < l => q[k] < q[l]
  BY <1>1, AscendingHas
<1> HIDE DEF q
<1>5. ASSUME NEW k \in DOMAIN q, NEW l \in DOMAIN q, k < l
      PROVE  s[q[k]].id # s[q[l]].id
  <2>1. q[k] \in I /\ q[l] \in I /\ q[k] < q[l]
    BY <1>4, <1>5
  <2>2. q[k] \in 1 .. (q[l] - 1)
    BY <1>2, <2>1
  <2> QED BY <1>2, <2>1, <2>2
<1>6. Distinct(PickedWhere(s, I))
  <2> SUFFICES ASSUME NEW k \in DOMAIN q, NEW l \in DOMAIN q, s[q[k]].id = s[q[l]].id
               PROVE  k = l
    BY <1>3 DEF Distinct
  <2>1. ~ k < l /\ ~ l < k
    BY <1>5
  <2> QED BY <1>4, <2>1
<1>7. \A x \in Range(PickedWhere(s, I)) : x \in Range(s) /\ ~ StoredAlready(x.id)
  BY <1>1, <1>2, <1>3 DEF Range
<1> QED BY <1>1, <1>3, <1>6, <1>7

-----------------------------------------------------------------------------
(* The listing and its pages *)

LEMMA EventOfHas ==
  ASSUME OneCTypeOK, NEW d \in Docs, Written(d)
  PROVE  EventOf(d) \in Event /\ EventOf(d).id = d
<1>1. /\ doc[d].kind \in Int /\ doc[d].client \in Int /\ doc[d].day \in Int
      /\ MonthDays \in Nat \ {0}
  <2>1. /\ doc[d].kind \in 1 .. DocKinds /\ doc[d].client \in Clients /\ doc[d].day \in Nat
    BY DEF Written, Document
  <2>2. DocKinds \in Nat
    BY OneCAssumption
  <2>3. MonthDays \in Nat \ {0}
    BY OneCAssumption
  <2>4. Clients \subseteq Nat
    BY OneCAssumption
  <2>5. doc[d].client \in Nat
    BY <2>1, <2>4
  <2> QED BY <2>1, <2>2, <2>3, <2>5
<1>2. doc[d].day \div MonthDays \in Int
  BY <1>1
<1>3. CaseOf(d, run.names) \in Int \X Int
  BY <1>1, <1>2 DEF CaseOf, NameOf
<1> QED BY <1>1, <1>3 DEF EventOf, Event

LEMMA PostedIsWritten ==
  ASSUME OneCTypeOK, NEW d \in Docs, doc[d].posted
  PROVE  Written(d)
BY DEF OneCTypeOK, Written, NoDoc

LEMMA ListingHas ==
  ASSUME OneCTypeOK
  PROVE  /\ IsFiniteSet(ListedDocs) /\ Orders(ByDate, ListedDocs)
         /\ \A d \in ListedDocs : d \in Docs /\ Written(d) /\ doc[d].kind = run.kind
<1>1. IsFiniteSet(Docs) /\ Docs \subseteq Nat
  <2>1. 1 \in Int /\ MaxDocs \in Int
    BY OneCAssumption
  <2>2. IsFiniteSet(1 .. MaxDocs)
    BY <2>1, FS_Interval
  <2>3. 1 .. MaxDocs \subseteq Nat
    BY <2>1
  <2> QED
    BY <2>2, <2>3 DEF Docs
<1>2. IsFiniteSet(ListedDocs)
  BY <1>1, FS_Subset DEF ListedDocs
<1>3. \A d \in ListedDocs : d \in Docs /\ Written(d) /\ doc[d].kind = run.kind
  BY PostedIsWritten DEF ListedDocs, InWindow
<1>4. \A d \in ListedDocs : d \in Nat /\ doc[d].day \in Nat
  BY <1>1, <1>3 DEF Written, Document
<1>5. \A d, e \in ListedDocs :
        <<d, e>> \in ByDate <=> doc[d].day < doc[e].day \/ (doc[d].day = doc[e].day /\ d < e)
  BY <1>3 DEF ByDate
<1>6. Orders(ByDate, ListedDocs)
  BY <1>4, <1>5 DEF Orders
<1> QED BY <1>2, <1>3, <1>6

(* A page of a listing: whatever it does not reach comes after a full page. *)
PageOf(s, skip, size) ==
  SubSeq(s, skip + 1, IF skip + size < Len(s) THEN skip + size ELSE Len(s))

LEMMA PageHas ==
  ASSUME NEW S, NEW s \in Seq(S), NEW skip \in Nat, NEW size \in Nat \ {0}
  PROVE  /\ PageOf(s, skip, size) \in Seq(S) /\ Len(PageOf(s, skip, size)) \in Nat
         /\ \A r \in Nat : skip <= r /\ r < Len(s) =>
              \/ \E k \in DOMAIN PageOf(s, skip, size) : PageOf(s, skip, size)[k] = s[r + 1]
              \/ Len(PageOf(s, skip, size)) = size /\ r >= skip + size
<1> DEFINE n == Len(s)
           last == IF skip + size < Len(s) THEN skip + size ELSE Len(s)
           page == SubSeq(s, skip + 1, last)
<1>1. n \in Nat /\ \A i \in 1 .. n : s[i] \in S
  BY ElementOfSeq, LenProperties
<1> HIDE DEF n
<1>2. last \in Nat /\ last <= n /\ last = IF skip + size < n THEN skip + size ELSE n
  BY <1>1 DEF n
<1>0. page = SubSeq(s, skip + 1, last) /\ page = PageOf(s, skip, size)
  BY DEF PageOf
<1> HIDE DEF last, page
<1>3. \A i \in skip + 1 .. last : s[i] \in S
  BY <1>1, <1>2
<1>4. /\ page \in Seq(S)
      /\ Len(page) = IF skip + 1 <= last THEN last - (skip + 1) + 1 ELSE 0
      /\ \A i \in 1 .. last - (skip + 1) + 1 : page[i] = s[skip + 1 + i - 1]
  <2> DEFINE first == skip + 1
  <2>1. first \in Int /\ last \in Int
    BY <1>2
  <2>2. \A i \in first .. last : s[i] \in S
    BY <1>3
  <2>3. page = SubSeq(s, first, last)
    BY <1>0
  <2> HIDE DEF first
  <2>4. /\ SubSeq(s, first, last) \in Seq(S)
        /\ Len(SubSeq(s, first, last)) = IF first <= last THEN last - first + 1 ELSE 0
        /\ \A i \in 1 .. last - first + 1 : SubSeq(s, first, last)[i] = s[first + i - 1]
    <3>1. SubSeq(s, first, last) \in Seq(S)
      BY <2>1, <2>2, SubSeqProperties
    <3>2. Len(SubSeq(s, first, last)) = IF first <= last THEN last - first + 1 ELSE 0
      BY <2>1, <2>2, SubSeqProperties
    <3>3. \A i \in 1 .. last - first + 1 : SubSeq(s, first, last)[i] = s[first + i - 1]
      BY <2>1, <2>2, SubSeqProperties
    <3> QED BY <3>1, <3>2, <3>3
  <2>5. /\ page \in Seq(S) /\ Len(page) = IF first <= last THEN last - first + 1 ELSE 0
        /\ \A i \in 1 .. last - first + 1 : page[i] = s[first + i - 1]
    BY <2>3, <2>4, Zenon
  <2> QED BY <2>5 DEF first
<1>5. DOMAIN page = 1 .. Len(page) /\ Len(page) \in Nat
  BY <1>4, LenProperties
<1>6. ASSUME NEW r \in Nat, skip <= r, r < n
      PROVE  \/ \E k \in DOMAIN page : page[k] = s[r + 1]
             \/ Len(page) = size /\ r >= skip + size
  <2>1. CASE r < last
    <3> DEFINE k == r - skip + 1
    <3>1. /\ k \in 1 .. last - (skip + 1) + 1 /\ k \in 1 .. Len(page)
          /\ skip + 1 + k - 1 = r + 1
      <4>1. k \in 1 .. last - (skip + 1) + 1 /\ skip + 1 + k - 1 = r + 1
        BY <1>1, <1>2, <1>6, <2>1
      <4>2. Len(page) = last - (skip + 1) + 1
        BY <1>1, <1>2, <1>4, <1>6, <2>1
      <4> QED BY <4>1, <4>2
    <3> HIDE DEF k
    <3>2. page[k] = s[r + 1]
      BY <1>4, <3>1
    <3> QED BY <1>5, <3>1, <3>2
  <2>2. CASE r >= last
    BY <1>1, <1>2, <1>4, <1>6, <2>2
  <2> QED BY <1>2, <2>1, <2>2
<1>7. /\ page \in Seq(S) /\ Len(page) \in Nat
      /\ \A r \in Nat : skip <= r /\ r < Len(s) =>
           \/ \E k \in DOMAIN page : page[k] = s[r + 1]
           \/ Len(page) = size /\ r >= skip + size
  BY <1>4, <1>5, <1>6 DEF n
<1> QED BY <1>0, <1>7

ThisPage == PageOf(Listing, run.skip, PageSize)

LEMMA PageReads ==
  ASSUME OneCTypeOK
  PROVE  /\ ThisPage \in Seq(ListedDocs) /\ Len(ThisPage) \in Nat
         /\ \A d \in ListedDocs :
              /\ Place(d) \in Nat
              /\ Place(d) >= run.skip =>
                   \/ \E k \in DOMAIN ThisPage : ThisPage[k] = d
                   \/ /\ ~ IsLast(ThisPage)
                      /\ Place(d) >= run.skip + Len(ThisPage)
<1> DEFINE n == Cardinality(ListedDocs)
<1>1. /\ Listing \in Seq(ListedDocs) /\ Len(Listing) = n /\ n \in Nat
      /\ \A d \in ListedDocs : Place(d) + 1 \in 1 .. n /\ Listing[Place(d) + 1] = d
  BY ListingHas, InOrderHas, FS_CardinalityType DEF Listing, Place
<1>2. run.skip \in Nat /\ PageSize \in Nat \ {0}
  BY OneCAssumption DEF OneCTypeOK
<1>3. \A d \in ListedDocs : Place(d) \in Nat
  <2>1. \A d \in ListedDocs : IsFiniteSet(Before(ListedDocs, ByDate, d))
    BY ListingHas, FS_Subset DEF Before
  <2> QED BY <2>1, FS_CardinalityType DEF Place
<1>5. /\ ThisPage \in Seq(ListedDocs) /\ Len(ThisPage) \in Nat
      /\ \A r \in Nat : run.skip <= r /\ r < Len(Listing) =>
           \/ \E k \in DOMAIN ThisPage : ThisPage[k] = Listing[r + 1]
           \/ Len(ThisPage) = PageSize /\ r >= run.skip + PageSize
  <2>1. Listing \in Seq(ListedDocs)
    BY <1>1
  <2> QED BY <1>2, <2>1, PageHas DEF ThisPage
<1>6. ASSUME NEW d \in ListedDocs, Place(d) >= run.skip
      PROVE  \/ \E k \in DOMAIN ThisPage : ThisPage[k] = d
             \/ ~ IsLast(ThisPage) /\ Place(d) >= run.skip + Len(ThisPage)
  <2>1. Place(d) \in Nat /\ run.skip <= Place(d) /\ Place(d) < Len(Listing)
    BY <1>1, <1>2, <1>3, <1>6
  <2>2. CASE \E k \in DOMAIN ThisPage : ThisPage[k] = Listing[Place(d) + 1]
    BY <1>1, <2>2
  <2>3. CASE Len(ThisPage) = PageSize /\ Place(d) >= run.skip + PageSize
    BY <1>2, <2>3 DEF IsLast
  <2> QED BY <1>5, <2>1, <2>2, <2>3
<1> QED BY <1>3, <1>5, <1>6

-----------------------------------------------------------------------------
(* The invariant *)

(* Documents that are written stay what they are. *)
Kept == \A d \in Docs : Written(d) =>
          /\ Written(d)' /\ doc'[d].kind = doc[d].kind /\ doc'[d].client = doc[d].client
          /\ doc'[d].day = doc[d].day

LEMMA TruthIsKept ==
  ASSUME OneCTypeOK, RowsAreTrue, LogIsTrue, Kept, UNCHANGED log,
         run'.rows = run.rows, run'.got = run.got, run'.names = run.names
  PROVE  RowsAreTrue' /\ LogIsTrue'
<1>1. /\ \A e \in Range(run.rows) \cup Range(run.got) : e.id \in Docs
      /\ \A x \in Range(log) : x.id \in Docs
  <2>1. /\ \A e \in Range(run.rows) \cup Range(run.got) : e \in Event
        /\ \A x \in Range(log) : x \in Entry
    BY ElementOfSeq, LenProperties DEF OneCTypeOK, Range
  <2> QED BY <2>1 DEF Event, Entry
<1>2. RowsAreTrue'
  BY <1>1 DEF RowsAreTrue, Kept, EventOf, CaseOf, NameOf
<1>3. LogIsTrue'
  BY <1>1 DEF LogIsTrue, OfDocument, Kept, CaseOf, NameOf
<1> QED BY <1>2, <1>3

(* An import stays where collect and main can be, its rows and the log stay sequences of
   events of documents, and a document once entered keeps its form. *)
THEOREM OneCTypeCorrect == OneCSpec => []OneCTypeOK
<1>1. OneCInit => OneCTypeOK
  <2>1. NoRun \in [at : {"idle", "reading"}, since : Nat, until : Nat, names : BOOLEAN,
                   all : BOOLEAN, kind : Nat \ {0}, skip : Nat, rows : Seq(Event),
                   got : Seq(Event), due : SUBSET Docs, taken : SUBSET Docs]
    BY DEF NoRun
  <2> QED BY <2>1 DEF OneCInit, OneCTypeOK
<1>2. OneCTypeOK /\ [OneCNext]_oneCVars => OneCTypeOK'
  <2> SUFFICES ASSUME OneCTypeOK, [OneCNext]_oneCVars
               PROVE  OneCTypeOK'
    OBVIOUS
  <2> DEFINE Run == [at : {"idle", "reading"}, since : Nat, until : Nat, names : BOOLEAN,
                     all : BOOLEAN, kind : Nat \ {0}, skip : Nat, rows : Seq(Event),
                     got : Seq(Event), due : SUBSET Docs, taken : SUBSET Docs]
             Missed == [docs : SUBSET Docs, taken : SUBSET Docs]
  <2>0. /\ today \in Nat /\ runs \in Nat /\ doc \in [Docs -> Document \cup {NoDoc}]
        /\ run \in Run /\ log \in Seq(Entry) /\ missed \subseteq Missed /\ NoRun \in Run
    BY DEF OneCTypeOK, NoRun
  <2>r. run.rows \in Seq(Event) /\ run.got \in Seq(Event) /\ run.kind \in Nat \ {0}
        /\ run.skip \in Nat /\ run.due \subseteq Docs /\ run.taken \subseteq Docs
    BY <2>0
  <2> HIDE DEF Run
  <2>t. ASSUME today' \in Nat, runs' \in Nat, doc' \in [Docs -> Document \cup {NoDoc}],
               run' \in Run, log' \in Seq(Entry), missed' \subseteq Missed
        PROVE  OneCTypeOK'
    BY <2>t DEF OneCTypeOK, Run
  <2>n. NextKind \in Run /\ NextKind.got = run.got /\ NextKind.due = run.due
    <3>1. run.kind + 1 \in Nat \ {0} /\ 0 \in Nat /\ <<>> \in Seq(Event)
      BY <2>r
    <3>2. NextKind = [run EXCEPT !.kind = run.kind + 1, !.skip = 0, !.rows = <<>>]
      BY <2>0 DEF NextKind, Run
    <3> QED BY <2>0, <3>1, <3>2 DEF Run
  <2>1. CASE NextDay
    BY <2>0, <2>1, <2>t DEF NextDay
  <2>2. ASSUME NEW d \in Docs, Post(d)
        PROVE  OneCTypeOK'
    <3>1. PICK k \in 1 .. DocKinds, c \in Clients, t \in 0 .. today :
            doc' = [doc EXCEPT ![d] = [kind |-> k, client |-> c, day |-> t, posted |-> TRUE]]
      BY <2>2 DEF Post
    <3>2. [kind |-> k, client |-> c, day |-> t, posted |-> TRUE] \in Document
      BY <2>0 DEF Document
    <3> QED BY <2>0, <2>2, <2>t, <3>1, <3>2 DEF Post
  <2>3. ASSUME NEW d \in Docs, Unpost(d)
        PROVE  OneCTypeOK'
    <3>1. doc[d] \in Document
      BY <2>3, PostedIsWritten DEF Unpost, Written
    <3>2. [doc[d] EXCEPT !.posted = FALSE] \in Document
      BY <3>1 DEF Document
    <3>3. doc' \in [Docs -> Document \cup {NoDoc}]
      BY <2>0, <2>3, <3>2 DEF Unpost
    <3>4. run' \in Run
      BY <2>0, <2>3 DEF Unpost, Run
    <3> QED BY <2>0, <2>3, <2>t, <3>3, <3>4 DEF Unpost
  <2>4. CASE Begin
    <3> DEFINE since == IF today > Window THEN today - Window ELSE 0
    <3>1. since \in Nat
      BY <2>0, OneCAssumption
    <3> HIDE DEF since
    <3>2. PICK all \in BOOLEAN, names \in BOOLEAN :
            run' = [NoRun EXCEPT !.at = "reading", !.since = since, !.until = today,
                      !.names = names, !.all = all,
                      !.due = {d \in Docs : InWindow(d, since, today)}]
      BY <2>4 DEF Begin, since
    <3>3. run' \in Run
      BY <2>0, <3>1, <3>2 DEF Run
    <3> QED BY <2>0, <2>4, <2>t, <3>3 DEF Begin
  <2>5. CASE Page
    <3> DEFINE soFar == run.rows \o [k \in DOMAIN ThisPage |-> EventOf(ThisPage[k])]
    <3>1. ThisPage \in Seq(ListedDocs) /\ Len(ThisPage) \in Nat
      BY PageReads
    <3>2. soFar \in Seq(Event)
      <4>1. \A k \in DOMAIN ThisPage : EventOf(ThisPage[k]) \in Event
        BY <3>1, ElementOfSeq, LenProperties, ListingHas, EventOfHas
      <4>2. DOMAIN ThisPage = 1 .. Len(ThisPage)
        BY <3>1, LenProperties
      <4>3. [k \in DOMAIN ThisPage |-> EventOf(ThisPage[k])] \in Seq(Event)
        BY <3>1, <4>1, <4>2
      <4> QED BY <2>r, <4>3, ConcatProperties
    <3>3. run.got \o soFar \in Seq(Event)
      BY <2>r, <3>2, ConcatProperties
    <3>4. run' = IF IsLast(ThisPage)
                 THEN [NextKind EXCEPT !.got = @ \o soFar]
                 ELSE [run EXCEPT !.skip = @ + Len(ThisPage), !.rows = soFar]
      BY <2>5 DEF Page, ThisPage, PageOf
    <3> HIDE DEF soFar
    <3>6. run' \in Run
      <4>1. CASE IsLast(ThisPage)
        BY <2>n, <3>3, <3>4, <4>1 DEF Run
      <4>2. CASE ~ IsLast(ThisPage)
        <5>1. run.skip + Len(ThisPage) \in Nat
          BY <2>r, <3>1
        <5> QED BY <2>0, <3>2, <3>4, <4>2, <5>1 DEF Run
      <4> QED BY <4>1, <4>2
    <3> QED BY <2>0, <2>5, <2>t, <3>6 DEF Page
  <2>6. CASE KindFails
    <3>1. run' \in Run
      BY <2>6, <2>r, <2>n DEF KindFails, Run
    <3> QED BY <2>0, <2>6, <2>t, <3>1 DEF KindFails
  <2>7. CASE Push
    <3> DEFINE new == Ordered(Unknown(Packet))
               Stored == {x.id : x \in Range(log) \cup Range(new)}
               entries == [k \in DOMAIN new |->
                      [id |-> new[k].id, case |-> new[k].case, activity |-> new[k].activity,
                       time |-> new[k].time, all |-> run.all, read |-> Read \cap Stored]]
    <3>1. new \in Seq(Event)
      BY <2>r, FirstOfEachHas, UnknownHas, OrderedHas DEF Packet
    <3>2. Read \subseteq Docs
      <4>1. \A e \in Range(run.got) : e \in Event
        BY <2>r, ElementOfSeq, LenProperties DEF Range
      <4> QED BY <4>1 DEF Read, Event
    <3>3. entries \in Seq(Entry)
      <4>1. DOMAIN new = 1 .. Len(new) /\ Len(new) \in Nat
        BY <3>1, LenProperties
      <4>2. \A k \in DOMAIN new : new[k] \in Event
        BY <3>1, <4>1, ElementOfSeq
      <4>3. run.all \in BOOLEAN
        BY <2>0 DEF Run
      <4> HIDE DEF new, Stored
      <4>4. \A k \in DOMAIN new : entries[k] \in Entry
        BY <3>2, <4>2, <4>3 DEF Event, Entry
      <4>5. DOMAIN entries = 1 .. Len(new)
        BY <4>1
      <4> HIDE DEF entries
      <4>6. entries = [k \in 1 .. Len(new) |-> entries[k]]
        BY <4>5 DEF entries
      <4> QED BY <4>1, <4>4, <4>6
    <3>4. log' = log \o entries
      BY <2>7 DEF Push
    <3> HIDE DEF entries
    <3>5. log' \in Seq(Entry)
      BY <2>0, <3>3, <3>4, ConcatProperties
    <3>6. missed' \subseteq Missed
      BY <2>0, <2>7, <2>r DEF Push
    <3> HIDE DEF Missed
    <3> QED BY <2>0, <2>7, <2>t, <3>5, <3>6 DEF Push
  <2>8. CASE GiveUp
    BY <2>0, <2>8, <2>t DEF GiveUp
  <2>9. CASE UNCHANGED oneCVars
    BY <2>0, <2>9, <2>t DEF oneCVars
  <2> QED BY <2>1, <2>2, <2>3, <2>4, <2>5, <2>6, <2>7, <2>8, <2>9 DEF OneCNext
<1> QED BY <1>1, <1>2, PTL DEF OneCSpec

LEMMA SetsOfDocs ==
  ASSUME NEW S \in SUBSET Docs
  PROVE  /\ IsFiniteSet(S) /\ Cardinality(S) \in Nat
         /\ \A T \in SUBSET S : Cardinality(T) \in Nat /\ Cardinality(T) <= Cardinality(S)
<1>1. IsFiniteSet(Docs)
  BY FS_Interval, OneCAssumption DEF Docs
<1>2. IsFiniteSet(S)
  BY <1>1, FS_Subset
<1> QED BY <1>2, FS_Subset, FS_CardinalityType

(* Which of two documents comes sooner does not change once they are written. *)
LEMMA SoonerStays ==
  ASSUME Kept, NEW d \in Docs, NEW e \in Docs, Written(d), Written(e)
  PROVE  Sooner(d, e)' <=> Sooner(d, e)
BY DEF Kept, Sooner, ByDate

(* As long as nothing more is lost, what was lost stays explained. *)
LEMMA LossesStayExplained ==
  ASSUME OneCTypeOK, OneCTypeOK', OneCInv, Kept, DueIsPosted',
         run'.due \subseteq run.due, Lost' \subseteq Lost,
         run.taken \subseteq run'.taken, \A e \in run'.taken : Written(e)' /\ ~ doc'[e].posted
  PROVE  LossesAreExplained'
<1>1. /\ run.due \subseteq Docs /\ run.taken \subseteq Docs /\ run'.taken \subseteq Docs
      /\ Lost \subseteq run.due
  BY DEF OneCTypeOK, Lost
<1>2. /\ \A d \in run.due : Written(d) /\ Cardinality(UpTo(Lost, d)) <= Cardinality(Ahead(run.taken, d))
      /\ \A e \in run.taken : Written(e)
  BY DEF OneCInv, DueIsPosted, LossesAreExplained
<1>3. ASSUME NEW d \in run'.due
      PROVE  Cardinality(UpTo(Lost, d)') <= Cardinality(Ahead(run.taken, d)')
  <2>1. UpTo(Lost, d)' \subseteq UpTo(Lost, d)
    BY <1>1, <1>2, SoonerStays DEF UpTo
  <2>2. Ahead(run.taken, d) \subseteq Ahead(run.taken, d)'
    BY <1>1, <1>2, SoonerStays DEF Ahead
  <2>3. /\ UpTo(Lost, d) \in SUBSET Docs /\ Ahead(run.taken, d) \in SUBSET Docs
        /\ Ahead(run.taken, d)' \in SUBSET Docs
    BY <1>1 DEF UpTo, Ahead
  <2>4. /\ Cardinality(UpTo(Lost, d)') \in Nat
        /\ Cardinality(UpTo(Lost, d)') <= Cardinality(UpTo(Lost, d))
        /\ Cardinality(UpTo(Lost, d)) \in Nat
    BY <2>1, <2>3, SetsOfDocs
  <2>5. /\ Cardinality(Ahead(run.taken, d)) \in Nat /\ Cardinality(Ahead(run.taken, d)') \in Nat
        /\ Cardinality(Ahead(run.taken, d)) <= Cardinality(Ahead(run.taken, d)')
    BY <2>2, <2>3, SetsOfDocs
  <2> QED BY <1>2, <2>4, <2>5
<1> QED BY <1>3 DEF LossesAreExplained

(* An import that has not come to anything has lost nothing. *)
LEMMA NothingLost ==
  ASSUME Lost' = {}, run'.taken = {}
  PROVE  LossesAreExplained'
<1>1. \A d : UpTo(Lost, d)' = {} /\ Ahead(run.taken, d)' = {}
  BY DEF UpTo, Ahead
<1>2. Cardinality({}) = 0
  BY FS_EmptySet
<1> QED BY <1>1, <1>2 DEF LossesAreExplained

(* Two documents of a listing have two places, the sooner one the lower. *)
LEMMA PlacesDiffer ==
  ASSUME OneCTypeOK, NEW d \in ListedDocs, NEW e \in ListedDocs
  PROVE  /\ Place(d) \in Nat /\ Place(e) \in Nat
         /\ Place(d) = Place(e) => d = e
         /\ <<d, e>> \in ByDate => Place(d) < Place(e)
<1>1. Place(d) \in Nat /\ Place(e) \in Nat
  BY PageReads
<1>2. /\ <<d, e>> \in ByDate => Place(d) < Place(e)
      /\ <<e, d>> \in ByDate => Place(e) < Place(d)
  BY ListingHas, BeforeGrows DEF Place
<1>3. d # e => <<d, e>> \in ByDate \/ <<e, d>> \in ByDate
  BY ListingHas DEF Orders
<1> QED BY <1>1, <1>2, <1>3

(* Documents written and taken back leave what was read and stored true. *)
LEMMA PlaceType ==
  ASSUME NEW S \in SUBSET Docs, NEW R, NEW d
  PROVE  Cardinality(Before(S, R, d)) \in Nat
<1>1. Before(S, R, d) \in SUBSET Docs
  BY DEF Before
<1> QED BY <1>1, SetsOfDocs

LEMMA PostKeeps ==
  ASSUME OneCTypeOK, OneCTypeOK', OneCInv, NEW d \in Docs, Post(d)
  PROVE  Kept /\ DueIsPosted' /\ LossesAreExplained'
<1>1. PICK k \in 1 .. DocKinds, c \in Clients, t \in 0 .. today :
        doc' = [doc EXCEPT ![d] = [kind |-> k, client |-> c, day |-> t, posted |-> TRUE]]
  BY DEF Post
<1>2. doc[d] = NoDoc /\ ~ Written(d) /\ UNCHANGED run /\ DOMAIN doc = Docs
  BY DEF Post, Written, NoDoc, Document, OneCTypeOK
<1>3. \A e \in Docs : e # d => doc'[e] = doc[e]
  BY <1>1, <1>2
<1>4. Kept
  BY <1>2, <1>3 DEF Kept, Written
<1>5. \A e \in ListedDocs : e \in Docs /\ e # d
  BY <1>2 DEF ListedDocs, InWindow, NoDoc
<1>6. IsFiniteSet(ListedDocs')
  <2>1. IsFiniteSet(Docs)
    BY FS_Interval, OneCAssumption DEF Docs
  <2> QED BY <2>1, FS_Subset DEF ListedDocs
<1>7. ASSUME NEW e \in ListedDocs
      PROVE  Place(e)' \in Nat /\ Place(e)' >= Place(e)
  <2> DEFINE old == Before(ListedDocs, ByDate, e)
             new == Before(ListedDocs', ByDate', e)
  <2>1. old \subseteq new
    BY <1>2, <1>3, <1>5 DEF Before, ListedDocs, InWindow, ByDate
  <2>2. new \subseteq ListedDocs'
    BY DEF Before
  <2> HIDE DEF old, new
  <2>3. IsFiniteSet(new) /\ Cardinality(new) \in Nat
    BY <1>6, <2>2, FS_Subset, FS_CardinalityType
  <2>4. Cardinality(old) <= Cardinality(new)
    BY <2>1, <2>3, FS_Subset
  <2>5. Cardinality(old) \in Nat
    BY <2>1, <2>3, FS_Subset, FS_CardinalityType
  <2>6. Cardinality(new) \in Nat /\ Cardinality(new) >= Cardinality(old)
    BY <2>3, <2>4, <2>5
  <2> QED BY <2>6 DEF Place, old, new
<1>8. /\ \A e \in run.due : Written(e) /\ InWindow(e, run.since, run.until)
      /\ \A e \in run.taken : Written(e) /\ ~ doc[e].posted
  BY DEF OneCInv, DueIsPosted, LossesAreExplained
<1>9. \A e \in run.due \cup run.taken : e \in Docs /\ e # d /\ doc'[e] = doc[e]
  BY <1>2, <1>3, <1>8 DEF OneCTypeOK
<1>10. /\ DueIsPosted' /\ \A e \in run'.taken : Written(e)' /\ ~ doc'[e].posted
  BY <1>2, <1>8, <1>9 DEF DueIsPosted, Written, InWindow
<1>11. Lost' \subseteq Lost
  <2> SUFFICES ASSUME NEW e \in Lost'
               PROVE  e \in Lost
    OBVIOUS
  <2>1. /\ e \in run.due /\ e \notin Read
        /\ \/ doc[e].kind < run.kind
           \/ doc[e].kind = run.kind /\ ~ RowsHave(e) /\ Place(e)' < run.skip
    BY <1>2, <1>9 DEF Lost, Read, RowsHave
  <2>2. ASSUME doc[e].kind = run.kind, Place(e)' < run.skip
        PROVE  Place(e) < run.skip
    <3>1. e \in ListedDocs
      BY <1>8, <1>9, <2>1, <2>2 DEF ListedDocs
    <3>2. Place(e)' \in Nat /\ Place(e)' >= Place(e) /\ Place(e) \in Nat /\ run.skip \in Nat
      BY <1>7, <3>1, PageReads DEF OneCTypeOK
    <3> QED BY <2>2, <3>2
  <2> QED BY <2>1, <2>2 DEF Lost
<1> QED BY <1>2, <1>4, <1>10, <1>11, LossesStayExplained

(* What is taken back moves one more document behind the place of the next page, and is
   then itself one more that was taken back before it. *)
LEMMA UnpostKeeps ==
  ASSUME OneCTypeOK, OneCTypeOK', OneCInv, NEW d \in Docs, Unpost(d)
  PROVE  Kept /\ DueIsPosted' /\ LossesAreExplained'
<1> DEFINE add == {e \in {d} \cap ListedDocs : Place(e) < run.skip}
<1>1. /\ doc' = [doc EXCEPT ![d].posted = FALSE] /\ DOMAIN doc = Docs
      /\ run' = [run EXCEPT !.due = @ \ {d}, !.taken = @ \cup add]
      /\ doc[d].posted /\ Written(d)
  BY PostedIsWritten DEF Unpost, OneCTypeOK
<1>2. /\ run'.due = run.due \ {d} /\ run'.taken = run.taken \cup add
      /\ run'.kind = run.kind /\ run'.skip = run.skip /\ run'.rows = run.rows
      /\ run'.got = run.got /\ run'.since = run.since /\ run'.until = run.until
      /\ run.due \subseteq Docs /\ run.taken \subseteq Docs /\ run.skip \in Nat
  <2> HIDE DEF add
  <2> QED BY <1>1 DEF OneCTypeOK
<1>3. \A e \in Docs : doc'[e] = IF e = d THEN [doc[e] EXCEPT !.posted = FALSE] ELSE doc[e]
  BY <1>1
<1>4. Kept
  BY <1>3 DEF Kept, Written, Document
<1>5. \A e \in Docs : /\ e # d => doc'[e] = doc[e] /\ (Written(e) => Written(e)')
                     /\ doc'[e].kind = doc[e].kind /\ doc'[e].day = doc[e].day
  BY <1>1, <1>3, <1>4 DEF Kept, Written, Document
<1>6. ~ doc'[d].posted /\ Written(d)'
  BY <1>1, <1>3, <1>4 DEF Kept, Written, Document
<1>7. /\ \A e \in run.due : Written(e) /\ InWindow(e, run.since, run.until)
      /\ \A e \in run.taken : Written(e) /\ ~ doc[e].posted
  BY DEF OneCInv, DueIsPosted, LossesAreExplained
<1>8. DueIsPosted'
  BY <1>2, <1>5, <1>7 DEF DueIsPosted, InWindow
<1>9. \A e \in run'.taken : Written(e)' /\ ~ doc'[e].posted
  <2>1. \A e \in run.taken : Written(e)' /\ ~ doc'[e].posted
    BY <1>2, <1>5, <1>6, <1>7
  <2> QED BY <1>2, <1>6, <2>1
<1>10. ByDate' = ByDate /\ \A x, y \in Docs : Sooner(x, y)' <=> Sooner(x, y)
  BY <1>5 DEF ByDate, Sooner
<1>11. ListedDocs' = ListedDocs \ {d}
  BY <1>2, <1>5, <1>6 DEF ListedDocs, InWindow
<1>12. ASSUME NEW x \in ListedDocs, x # d
       PROVE  \/ Place(x)' = Place(x)
              \/ d \in ListedDocs /\ <<d, x>> \in ByDate /\ Place(x)' = Place(x) - 1
  <2> DEFINE B == Before(ListedDocs, ByDate, x)
  <2>1. Before(ListedDocs', ByDate', x) = B \ {d}
    BY <1>10, <1>11 DEF Before
  <2>2. IsFiniteSet(B) /\ Cardinality(B) \in Nat
    <3>1. B \in SUBSET Docs
      BY DEF Before, ListedDocs
    <3> QED BY <3>1, SetsOfDocs
  <2>3. CASE d \in B
    <3>1. Cardinality(B \ {d}) = Cardinality(B) - 1
      BY <2>2, <2>3, FS_RemoveElement
    <3> QED BY <2>1, <2>3, <3>1 DEF Place, Before
  <2>4. CASE d \notin B
    <3>1. B \ {d} = B
      BY <2>4
    <3> QED BY <2>1, <3>1 DEF Place
  <2> QED BY <2>3, <2>4
<1>13. ASSUME NEW x \in Lost', x \notin Lost
       PROVE  /\ x \in ListedDocs /\ Place(x) = run.skip /\ x \in run.due
              /\ d \in add /\ Sooner(d, x)
  <2>1. /\ x \in run.due /\ x # d /\ x \in Docs /\ x \notin Read
        /\ \/ doc[x].kind < run.kind
           \/ doc[x].kind = run.kind /\ ~ RowsHave(x) /\ Place(x)' < run.skip
    BY <1>2, <1>5 DEF Lost, Read, RowsHave
  <2>2. /\ doc[x].kind = run.kind /\ ~ RowsHave(x) /\ Place(x)' < run.skip
        /\ ~ Place(x) < run.skip
    BY <1>13, <2>1 DEF Lost
  <2>3. x \in ListedDocs
    BY <1>7, <2>1, <2>2 DEF ListedDocs
  <2>4. Place(x) \in Nat
    BY <2>3, PageReads
  <2>5. /\ d \in ListedDocs /\ <<d, x>> \in ByDate /\ Place(x) = run.skip
    BY <1>2, <1>12, <2>1, <2>2, <2>3, <2>4
  <2>6. Place(d) < run.skip
    BY <2>3, <2>5, PlacesDiffer
  <2>7. Sooner(d, x)
    BY <2>2, <2>5 DEF Sooner, ListedDocs
  <2> QED BY <2>1, <2>3, <2>5, <2>6, <2>7
<1>14. CASE Lost' \subseteq Lost
  <2>1. run'.due \subseteq run.due /\ run.taken \subseteq run'.taken
    BY <1>2
  <2> QED BY <1>4, <1>8, <1>9, <1>14, <2>1, LossesStayExplained
<1>15. ASSUME NEW x \in Lost', x \notin Lost
       PROVE  LossesAreExplained'
  <2>1. x \in ListedDocs /\ Place(x) = run.skip /\ x \in run.due /\ d \in add /\ Sooner(d, x)
    BY <1>13, <1>15
  <2>2. Lost' \subseteq Lost \cup {x}
    <3>1. ASSUME NEW y \in Lost', y \notin Lost PROVE y = x
      <4>1. y \in ListedDocs /\ Place(y) = run.skip
        BY <1>13, <3>1
      <4> QED BY <2>1, <4>1, PlacesDiffer
    <3> QED BY <3>1
  <2>3. Lost \subseteq run.due /\ d \notin run.taken /\ run'.taken = run.taken \cup {d}
    BY <1>1, <1>2, <1>7, <2>1 DEF Lost
  <2>4. ASSUME NEW y \in run'.due
        PROVE  Cardinality(UpTo(Lost, y)') <= Cardinality(Ahead(run.taken, y)')
    <3> DEFINE U == UpTo(Lost, y)
               A == Ahead(run.taken, y)
    <3>1. y \in run.due /\ y \in Docs /\ Cardinality(U) <= Cardinality(A)
      BY <1>2, <2>4 DEF OneCInv, LossesAreExplained
    <3>2. /\ U \in SUBSET Docs /\ A \in SUBSET Docs
          /\ IsFiniteSet(U) /\ IsFiniteSet(A) /\ Cardinality(U) \in Nat /\ Cardinality(A) \in Nat
      <4>1. U \in SUBSET Docs /\ A \in SUBSET Docs
        BY <1>2, <2>3 DEF UpTo, Ahead
      <4> HIDE DEF U, A
      <4> QED BY <4>1, SetsOfDocs
    <3>3. CASE x = y \/ Sooner(x, y)
      <4>1. Sooner(d, y)
        <5>1. CASE x = y
          BY <2>1, <5>1
        <5>2. CASE Sooner(x, y)
          <6>1. /\ doc[d].day \in Nat /\ doc[x].day \in Nat /\ doc[y].day \in Nat
                /\ d \in Nat /\ x \in Nat /\ y \in Nat
            <7>1. Docs \subseteq Nat
              BY OneCAssumption DEF Docs
            <7>2. Written(d) /\ Written(x) /\ Written(y)
              BY <1>1, <1>7, <2>1, <3>1
            <7> QED BY <1>2, <2>1, <3>1, <7>1, <7>2 DEF Written, Document
          <6> QED BY <1>2, <2>1, <3>1, <5>2, <6>1 DEF Sooner, ByDate
        <5> QED BY <3>3, <5>1, <5>2
      <4>2. UpTo(Lost, y)' \subseteq U \cup {x}
        BY <1>2, <1>10, <2>1, <2>2, <2>3, <3>1 DEF UpTo
      <4>3. Ahead(run.taken, y)' = A \cup {d} /\ d \notin A
        BY <1>2, <1>10, <2>3, <3>1, <4>1 DEF Ahead
      <4> HIDE DEF U, A
      <4>4. Cardinality(A \cup {d}) = Cardinality(A) + 1
        BY <3>2, <4>3, FS_AddElement
      <4>5. /\ Cardinality(U \cup {x}) <= Cardinality(U) + 1 /\ IsFiniteSet(U \cup {x})
            /\ Cardinality(U \cup {x}) \in Nat
        <5>1. CASE x \in U
          <6>1. U \cup {x} = U
            BY <5>1
          <6>2. /\ Cardinality(U \cup {x}) = Cardinality(U)
                /\ IsFiniteSet(U \cup {x}) <=> IsFiniteSet(U)
            BY <6>1, Zenon
          <6>3. Cardinality(U) <= Cardinality(U) + 1
            BY <3>2
          <6> QED BY <3>2, <6>2, <6>3
        <5>2. CASE x \notin U
          BY <3>2, <5>2, FS_AddElement
        <5> QED BY <5>1, <5>2
      <4>6. /\ Cardinality(UpTo(Lost, y)') <= Cardinality(U \cup {x})
            /\ Cardinality(UpTo(Lost, y)') \in Nat
        BY <4>2, <4>5, FS_Subset, FS_CardinalityType
      <4> QED BY <3>1, <3>2, <4>3, <4>4, <4>5, <4>6
    <3>4. CASE ~ (x = y \/ Sooner(x, y))
      <4>1. UpTo(Lost, y)' \subseteq U /\ A \subseteq Ahead(run.taken, y)'
        BY <1>2, <1>10, <2>1, <2>2, <2>3, <3>1, <3>4 DEF UpTo, Ahead
      <4>2. Ahead(run.taken, y)' \in SUBSET Docs
        BY <1>2, <2>3 DEF Ahead
      <4> HIDE DEF U, A
      <4>3. Cardinality(UpTo(Lost, y)') <= Cardinality(U) /\ Cardinality(UpTo(Lost, y)') \in Nat
        BY <3>2, <4>1, SetsOfDocs
      <4>4. /\ Cardinality(A) <= Cardinality(Ahead(run.taken, y)')
            /\ Cardinality(Ahead(run.taken, y)') \in Nat
        BY <4>1, <4>2, SetsOfDocs
      <4> QED BY <3>1, <3>2, <4>3, <4>4
    <3> QED BY <3>3, <3>4
  <2> QED BY <1>9, <2>4 DEF LossesAreExplained
<1> QED BY <1>4, <1>8, <1>14, <1>15

(* What a page adds is what the documents say, and with it every document of the kind
   that is due and between the place the import has come to and the next. *)
LEMMA PageKeeps ==
  ASSUME OneCTypeOK, OneCTypeOK', OneCInv, Page
  PROVE  RowsAreTrue' /\ DueIsPosted' /\ LossesAreExplained'
<1> DEFINE batch == ThisPage
           added == [k \in DOMAIN batch |-> EventOf(batch[k])]
           soFar == run.rows \o added
<1>1. /\ run' = IF IsLast(batch) THEN [NextKind EXCEPT !.got = @ \o soFar]
                 ELSE [run EXCEPT !.skip = @ + Len(batch), !.rows = soFar]
      /\ UNCHANGED doc /\ run.kind <= DocKinds
  BY DEF Page, ThisPage, PageOf
<1>2. /\ run.rows \in Seq(Event) /\ run.got \in Seq(Event) /\ run.kind \in Nat \ {0}
      /\ run.skip \in Nat /\ run.due \subseteq Docs
  BY DEF OneCTypeOK
<1>3. batch \in Seq(ListedDocs) /\ Len(batch) \in Nat
  BY PageReads
<1>4. \A k \in DOMAIN batch : /\ batch[k] \in Docs /\ Written(batch[k])
                              /\ EventOf(batch[k]) \in Event /\ EventOf(batch[k]).id = batch[k]
  <2>1. \A k \in DOMAIN batch : batch[k] \in ListedDocs
    BY <1>3, ElementOfSeq, LenProperties
  <2> QED BY <2>1, ListingHas, EventOfHas
<1>5. added \in Seq(Event) /\ DOMAIN added = DOMAIN batch
  BY <1>3, <1>4, LenProperties
<1>6. Range(added) = {EventOf(batch[k]) : k \in DOMAIN batch}
  BY DEF Range
<1> HIDE DEF batch, added
<1>7. soFar \in Seq(Event) /\ Range(soFar) = Range(run.rows) \cup Range(added)
  BY <1>2, <1>5, ConcatProperties, RangeConcatenation
<1> HIDE DEF soFar
<1>8. run.got \o soFar \in Seq(Event) /\ Range(run.got \o soFar) = Range(run.got) \cup Range(soFar)
  BY <1>2, <1>7, ConcatProperties, RangeConcatenation
<1>9. \A e \in Range(added) : Written(e.id) /\ e = EventOf(e.id)
  BY <1>4, <1>6
<1>10. \A e \in Range(run.rows) \cup Range(run.got) : Written(e.id) /\ e = EventOf(e.id)
  BY DEF OneCInv, RowsAreTrue
<1>11. ASSUME NEW e \in run.due, doc[e].kind = run.kind, e \notin Lost, e \notin Read
       PROVE  \/ \E x \in Range(soFar) : x.id = e
              \/ ~ IsLast(batch) /\ Place(e) >= run.skip + Len(batch)
  <2>1. /\ Written(e) /\ InWindow(e, run.since, run.until) /\ e \in Docs
    BY <1>2 DEF OneCInv, DueIsPosted
  <2>2. e \in ListedDocs
    BY <2>1, <1>11 DEF ListedDocs
  <2>3. ASSUME NEW k \in DOMAIN batch, batch[k] = e
        PROVE  \E x \in Range(soFar) : x.id = e
    <3>1. EventOf(e) \in Range(soFar) /\ EventOf(e).id = e
      BY <1>4, <1>6, <1>7, <2>3
    <3> QED BY <3>1
  <2>4. CASE RowsHave(e)
    BY <1>7, <2>4 DEF RowsHave
  <2>5. CASE Place(e) >= run.skip
    BY <2>2, <2>3, <2>5, PageReads DEF batch
  <2>6. Place(e) \in Nat
    BY <2>2, PageReads
  <2> QED BY <1>2, <1>11, <2>4, <2>5, <2>6 DEF Lost
<1>12. \A e \in run.due : /\ Written(e) /\ InWindow(e, run.since, run.until)
                          /\ doc[e].kind \in Nat
  BY OneCAssumption DEF OneCInv, DueIsPosted, Written, Document
<1>k. Kept
  BY <1>1 DEF Kept, Written
<1>t. \A e \in run.taken : Written(e)' /\ ~ doc'[e].posted
  BY <1>1 DEF OneCInv, LossesAreExplained, Written
<1>13. CASE IsLast(batch)
  <2>1. NextKind = [run EXCEPT !.kind = run.kind + 1, !.skip = 0, !.rows = <<>>]
    BY DEF NextKind, OneCTypeOK
  <2>2. /\ run'.since = run.since /\ run'.until = run.until /\ run'.names = run.names
        /\ run'.kind = run.kind + 1 /\ run'.skip = 0 /\ run'.rows = <<>>
        /\ run'.got = run.got \o soFar /\ run'.due = run.due
    BY <1>1, <1>13, <2>1 DEF OneCTypeOK
  <2>3. /\ Range(run'.rows) = {}
        /\ Range(run'.got) = Range(run.got) \cup (Range(run.rows) \cup Range(added))
    <3>1. Range(run'.rows) = {}
      BY <2>2 DEF Range
    <3>2. Range(run'.got) = Range(run.got) \cup (Range(run.rows) \cup Range(added))
      BY <1>7, <1>8, <2>2
    <3> QED BY <3>1, <3>2
  <2>4. RowsAreTrue'
    BY <1>1, <1>9, <1>10, <2>2, <2>3 DEF RowsAreTrue, Written, EventOf, CaseOf
  <2>5. \A x \in Range(run.got) \cup Range(soFar) : x.id \in Read'
    BY <1>7, <2>3 DEF Read
  <2>6. \A e : Place(e)' \in Nat
    BY PlaceType DEF ListedDocs, Place
  <2>7. DueIsPosted'
    <3>1. \A e \in run.due : Written(e) /\ InWindow(e, run.since, run.until)
      BY <1>12
    <3> QED BY <1>1, <2>2, <3>1 DEF DueIsPosted, Written, InWindow
  <2>8. Lost' \subseteq Lost
    <3> SUFFICES ASSUME NEW e \in Lost', e \notin Lost
                 PROVE  FALSE
      OBVIOUS
    <3>1. /\ e \in run.due /\ e \notin Read' /\ doc[e].kind \in Nat
          /\ doc[e].kind < run.kind + 1 \/ Place(e)' < 0
      BY <1>1, <1>12, <2>2 DEF Lost
    <3>2. doc[e].kind < run.kind + 1 /\ e \notin Read
      <4>1. doc[e].kind < run.kind + 1
        BY <2>6, <3>1
      <4>2. e \notin Read
        BY <2>5, <3>1 DEF Read
      <4> QED BY <4>1, <4>2
    <3>3. CASE doc[e].kind < run.kind
      BY <3>1, <3>2, <3>3 DEF Lost
    <3>4. CASE doc[e].kind = run.kind
      BY <1>11, <1>13, <2>5, <3>1, <3>2, <3>4
    <3> QED BY <1>2, <3>1, <3>2, <3>3, <3>4
  <2>9. run'.taken = run.taken
    BY <1>1, <1>13, <2>1 DEF OneCTypeOK
  <2> QED BY <1>k, <1>t, <2>2, <2>4, <2>7, <2>8, <2>9, LossesStayExplained
<1>14. CASE ~ IsLast(batch)
  <2>1. /\ run'.since = run.since /\ run'.until = run.until /\ run'.names = run.names
        /\ run'.kind = run.kind /\ run'.skip = run.skip + Len(batch) /\ run'.rows = soFar
        /\ run'.got = run.got /\ run'.due = run.due /\ run'.taken = run.taken
    BY <1>1, <1>14 DEF OneCTypeOK
  <2>2. RowsAreTrue'
    BY <1>1, <1>7, <1>9, <1>10, <2>1 DEF RowsAreTrue, Written, EventOf, CaseOf
  <2>3. \A e : Place(e)' = Place(e)
    BY <1>1, <2>1 DEF Place, ListedDocs, InWindow, ByDate
  <2>4. DueIsPosted'
    <3>1. \A e \in run.due : Written(e) /\ InWindow(e, run.since, run.until)
      BY <1>12
    <3> QED BY <1>1, <2>1, <3>1 DEF DueIsPosted, Written, InWindow
  <2>5. Lost' \subseteq Lost
    <3> SUFFICES ASSUME NEW e \in Lost', e \notin Lost
                 PROVE  FALSE
      OBVIOUS
    <3>1. /\ e \in run.due /\ e \notin Read
          /\ \/ doc[e].kind < run.kind
             \/ /\ doc[e].kind = run.kind /\ ~ (\E x \in Range(soFar) : x.id = e)
                /\ Place(e) < run.skip + Len(batch)
      BY <1>1, <2>1, <2>3 DEF Lost, Read, RowsHave
    <3>2. doc[e].kind = run.kind
      BY <3>1 DEF Lost
    <3>3. Place(e) \in Nat
      BY PlaceType DEF ListedDocs, Place
    <3> QED BY <1>2, <1>3, <1>11, <1>12, <3>1, <3>2, <3>3
  <2> QED BY <1>k, <1>t, <2>1, <2>2, <2>4, <2>5, LossesStayExplained
<1> QED BY <1>13, <1>14

LEMMA BeginKeeps ==
  ASSUME OneCTypeOK, OneCInv, Begin
  PROVE  RowsAreTrue' /\ DueIsPosted' /\ LossesAreExplained'
<1> DEFINE since == IF today > Window THEN today - Window ELSE 0
<1>1. PICK all \in BOOLEAN, names \in BOOLEAN :
        run' = [NoRun EXCEPT !.at = "reading", !.since = since, !.until = today,
                  !.names = names, !.all = all,
                  !.due = {d \in Docs : InWindow(d, since, today)}]
  BY DEF Begin
<1> HIDE DEF since
<1>2. /\ run'.since = since /\ run'.until = today /\ run'.kind = 1 /\ run'.skip = 0
      /\ run'.rows = <<>> /\ run'.got = <<>> /\ run'.taken = {}
      /\ run'.due = {d \in Docs : InWindow(d, since, today)} /\ doc' = doc
  BY <1>1 DEF NoRun, Begin
<1>3. RowsAreTrue'
  BY <1>2 DEF RowsAreTrue, Range
<1>4. \A e : Place(e)' \in Nat
  BY PlaceType DEF ListedDocs, Place
<1>5. ASSUME NEW e \in run'.due
      PROVE  Written(e)' /\ InWindow(e, run.since, run.until)' /\ ~ doc'[e].kind < run'.kind
  <2>1. e \in Docs /\ InWindow(e, since, today)
    BY <1>2
  <2>2. Written(e)
    BY <2>1, PostedIsWritten DEF InWindow
  <2>3. doc[e].kind \in Nat /\ doc[e].kind >= 1
    BY <2>2, OneCAssumption DEF Written, Document
  <2> QED BY <1>2, <2>1, <2>2, <2>3 DEF Written, InWindow
<1>6. Lost' = {}
  BY <1>2, <1>4, <1>5 DEF Lost
<1>7. LossesAreExplained'
  BY <1>2, <1>6, NothingLost
<1> QED BY <1>3, <1>5, <1>7 DEF DueIsPosted

LEMMA KindFailsKeeps ==
  ASSUME OneCTypeOK, OneCTypeOK', OneCInv, KindFails
  PROVE  RowsAreTrue' /\ DueIsPosted' /\ LossesAreExplained'
<1>1. NextKind = [run EXCEPT !.kind = run.kind + 1, !.skip = 0, !.rows = <<>>]
  BY DEF NextKind, OneCTypeOK
<1>2. /\ run'.since = run.since /\ run'.until = run.until /\ run'.names = run.names
      /\ run'.kind = run.kind + 1 /\ run'.skip = 0 /\ run'.rows = <<>>
      /\ run'.got = run.got /\ run'.due = {d \in run.due : doc[d].kind # run.kind}
      /\ run'.taken = run.taken /\ doc' = doc /\ run.kind \in Nat
  BY <1>1 DEF KindFails, OneCTypeOK
<1>3. RowsAreTrue'
  BY <1>2 DEF OneCInv, RowsAreTrue, Range, Written, EventOf, CaseOf
<1>4. \A e : Place(e)' \in Nat
  BY PlaceType DEF ListedDocs, Place
<1>5. \A e \in run.due : /\ Written(e) /\ InWindow(e, run.since, run.until)
                         /\ doc[e].kind \in Nat
  BY OneCAssumption DEF OneCInv, DueIsPosted, Written, Document
<1>6. DueIsPosted'
  BY <1>2, <1>5 DEF DueIsPosted, Written, InWindow
<1>7. Lost' \subseteq Lost
  <2> SUFFICES ASSUME NEW e \in Lost'
               PROVE  e \in Lost
    OBVIOUS
  <2>1. /\ e \in run.due /\ doc[e].kind # run.kind /\ e \notin Read
        /\ doc[e].kind < run.kind + 1 \/ Place(e)' < 0
    BY <1>2 DEF Lost, Read
  <2>2. doc[e].kind < run.kind
    BY <1>2, <1>4, <1>5, <2>1
  <2> QED BY <2>1, <2>2 DEF Lost
<1>8. Kept /\ \A e \in run'.taken : Written(e)' /\ ~ doc'[e].posted
  BY <1>2 DEF Kept, OneCInv, LossesAreExplained, Written
<1>9. run'.due \subseteq run.due
  BY <1>2
<1> QED BY <1>2, <1>3, <1>6, <1>7, <1>8, <1>9, LossesStayExplained

(* One case under two names is one case: a name is not the head of a key. *)
LEMMA SameNames ==
  ASSUME OneCTypeOK, NEW d \in Docs, NEW e \in Docs, Written(d), Written(e),
         NEW m \in BOOLEAN, NEW n \in BOOLEAN, CaseOf(d, m) = CaseOf(e, n)
  PROVE  m = n
<1>1. doc[d].client \in Clients /\ doc[e].client \in Clients
  BY DEF Written, Document
<1>2. Clients \subseteq Nat \ {0}
  BY OneCAssumption
<1>3. doc[d].client \in Nat \ {0} /\ doc[e].client \in Nat \ {0}
  BY <1>1, <1>2
<1>4. NameOf(doc[d].client, m) = NameOf(doc[e].client, n)
  BY DEF CaseOf
<1>5. m /\ ~ n => doc[d].client = - doc[e].client
  BY <1>4 DEF NameOf
<1>6. n /\ ~ m => - doc[d].client = doc[e].client
  BY <1>4 DEF NameOf
<1>7. ~ (m /\ ~ n) /\ ~ (n /\ ~ m)
  BY <1>3, <1>5, <1>6
<1> QED BY <1>7

LEMMA PushKeeps ==
  ASSUME OneCTypeOK, OneCInv, Push
  PROVE  /\ LogIsTrue' /\ MissedAreWritten' /\ SkipsAreExplained'
         /\ AllExplained' /\ StoredOnce'
<1> DEFINE new == Ordered(Unknown(Packet))
           Stored == {x.id : x \in Range(log) \cup Range(new)}
           entries == [k \in DOMAIN new |->
                  [id |-> new[k].id, case |-> new[k].case, activity |-> new[k].activity,
                   time |-> new[k].time, all |-> run.all, read |-> Read \cap Stored]]
<1>1. /\ log' = log \o entries /\ doc' = doc /\ run.kind > DocKinds
      /\ missed' \subseteq missed \cup {[docs |-> run.due \ Read, taken |-> run.taken]}
  BY DEF Push
<1>2. /\ run.got \in Seq(Event) /\ run.kind \in Nat /\ log \in Seq(Entry)
      /\ run.all \in BOOLEAN /\ run.names \in BOOLEAN
  BY DEF OneCTypeOK
<1>3. /\ new \in Seq(Event) /\ Range(new) \subseteq Range(run.got)
      /\ ~ run.all => \A x \in Range(new), y \in Range(run.got) : Alike(x, y) => x.time <= y.time
      /\ \A x \in Range(new) : ~ StoredAlready(x.id)
      /\ Distinct(new)
  <2>1. /\ Packet \in Seq(Event) /\ Range(Packet) \subseteq Range(run.got)
        /\ ~ run.all => \A x \in Range(Packet), y \in Range(run.got) :
                           Alike(x, y) => x.time <= y.time
    BY <1>2, FirstOfEachHas DEF Packet
  <2>2. /\ Unknown(Packet) \in Seq(Event) /\ Range(Unknown(Packet)) \subseteq Range(Packet)
        /\ \A x \in Range(Unknown(Packet)) : ~ StoredAlready(x.id)
        /\ Distinct(Unknown(Packet))
    BY <2>1, UnknownHas
  <2>3. new \in Seq(Event) /\ Range(new) = Range(Unknown(Packet)) /\ Distinct(new)
    BY <2>2, OrderedHas
  <2> HIDE DEF new
  <2> QED BY <2>1, <2>2, <2>3
<1> HIDE DEF new
<1>4. DOMAIN new = 1 .. Len(new) /\ Len(new) \in Nat /\ \A k \in DOMAIN new : new[k] \in Event
  BY <1>3, LenProperties, ElementOfSeq
<1>5. /\ DOMAIN entries = DOMAIN new
      /\ \A k \in DOMAIN new :
           /\ entries[k].id = new[k].id /\ entries[k].case = new[k].case
           /\ entries[k].activity = new[k].activity /\ entries[k].time = new[k].time
           /\ entries[k].all = run.all /\ entries[k].read \subseteq Read
           /\ new[k] \in Range(run.got)
  BY <1>3 DEF Range
<1> HIDE DEF entries
<1>6. \A g \in Range(run.got) : /\ g \in Event /\ Written(g.id) /\ g.id \in Docs
                               /\ g.activity = doc[g.id].kind /\ g.time = doc[g.id].day
                               /\ g.case = CaseOf(g.id, run.names)
  <2>1. \A g \in Range(run.got) : g \in Event
    BY <1>2, ElementOfSeq, LenProperties DEF Range
  <2>2. \A g \in Range(run.got) : g = EventOf(g.id) /\ Written(g.id)
    BY DEF OneCInv, RowsAreTrue
  <2>3. \A d : /\ EventOf(d).activity = doc[d].kind /\ EventOf(d).time = doc[d].day
               /\ EventOf(d).case = CaseOf(d, run.names)
    BY DEF EventOf
  <2> QED BY <2>1, <2>2, <2>3 DEF Event
<1>7. /\ DOMAIN log' = 1 .. Len(log) + Len(new)
      /\ \A i \in DOMAIN log : i \in DOMAIN log' /\ log'[i] = log[i]
      /\ \A i \in DOMAIN log' :
           \/ i \in DOMAIN log
           \/ i > Len(log) /\ i - Len(log) \in DOMAIN new /\ log'[i] = entries[i - Len(log)]
  <2> DEFINE U == Range(log) \cup Range(entries)
  <2>1. DOMAIN log = 1 .. Len(log) /\ Len(log) \in Nat
    BY <1>2, LenProperties
  <2>2. log = [i \in 1 .. Len(log) |-> log[i]]
    BY <1>2
  <2>3. entries = [i \in 1 .. Len(new) |-> entries[i]]
    BY <1>4, <1>5 DEF entries
  <2>4. /\ \A i \in 1 .. Len(log) : log[i] \in U
        /\ \A i \in 1 .. Len(new) : entries[i] \in U
    BY <1>4, <1>5, <2>1 DEF Range
  <2> HIDE DEF U
  <2>5. log \in Seq(U)
    BY <2>1, <2>2, <2>4
  <2>6. entries \in Seq(U) /\ Len(entries) = Len(new)
    BY <1>4, <2>3, <2>4
  <2>7. /\ log' \in Seq(U) /\ Len(log') = Len(log) + Len(new)
        /\ \A i \in 1 .. Len(log) + Len(new) :
             log'[i] = IF i <= Len(log) THEN log[i] ELSE entries[i - Len(log)]
    <3>1. log' = log \o entries
      BY <1>1
    <3>2. log \o entries \in Seq(U) /\ Len(log \o entries) = Len(log) + Len(entries)
      BY <2>5, <2>6, ConcatProperties
    <3>3. \A i \in 1 .. Len(log) + Len(entries) :
            (log \o entries)[i] = IF i <= Len(log) THEN log[i] ELSE entries[i - Len(log)]
      BY <2>5, <2>6, ConcatProperties
    <3> QED BY <2>6, <3>1, <3>2, <3>3
  <2>8. DOMAIN log' = 1 .. Len(log) + Len(new)
    BY <2>7, LenProperties
  <2> QED BY <1>4, <2>1, <2>7, <2>8
<1>8. /\ Len(log) \in Nat /\ DOMAIN log = 1 .. Len(log)
      /\ \A i \in DOMAIN log : log[i] \in Entry
  BY <1>2, LenProperties, ElementOfSeq
<1>9. \A i \in DOMAIN log : OfDocument(log[i]) /\ log[i].id \in Docs
  BY <1>8 DEF OneCInv, LogIsTrue, Range, Entry
<1>10. LogIsTrue'
  <2>1. \A x : OfDocument(x)' <=> OfDocument(x)
    BY <1>1 DEF OfDocument, Written, CaseOf
  <2>2. ASSUME NEW i \in DOMAIN log'
        PROVE  OfDocument(log'[i])
    <3>1. CASE i \in DOMAIN log
      BY <1>7, <1>9, <3>1
    <3>2. CASE i \notin DOMAIN log
      <4> DEFINE k == i - Len(log)
      <4>1. k \in DOMAIN new /\ log'[i] = entries[k]
        BY <1>7, <3>2
      <4> HIDE DEF k
      <4>2. /\ new[k] \in Range(run.got) /\ log'[i].id = new[k].id
            /\ log'[i].case = new[k].case /\ log'[i].activity = new[k].activity
            /\ log'[i].time = new[k].time
        BY <1>5, <4>1
      <4> QED BY <1>2, <1>6, <4>2 DEF OfDocument
    <3> QED BY <3>1, <3>2
  <2> QED BY <2>1, <2>2 DEF LogIsTrue, Range
<1>11. MissedAreWritten' /\ SkipsAreExplained'
  <2>1. ASSUME NEW d \in run.due
        PROVE  Written(d) /\ doc[d].kind < run.kind
    <3>1. Written(d)
      BY DEF OneCInv, DueIsPosted
    <3>2. doc[d].kind \in 1 .. DocKinds /\ DocKinds \in Nat
      BY <3>1, OneCAssumption DEF Written, Document
    <3> QED BY <1>1, <1>2, <3>1, <3>2
  <2>2. Lost = run.due \ Read
    BY <2>1 DEF Lost
  <2>3. /\ \A m \in missed : \A d \in m.docs :
             Cardinality(UpTo(m.docs, d)) <= Cardinality(Ahead(m.taken, d))
        /\ \A d \in Lost : Cardinality(UpTo(Lost, d)) <= Cardinality(Ahead(run.taken, d))
    BY DEF OneCInv, SkipsAreExplained, LossesAreExplained, UpTo, Ahead, Lost
  <2>4. \A m \in missed' : \A d \in m.docs :
          Cardinality(UpTo(m.docs, d)) <= Cardinality(Ahead(m.taken, d))
    <3> DEFINE lately == [docs |-> run.due \ Read, taken |-> run.taken]
    <3>1. lately.docs = Lost /\ lately.taken = run.taken
      BY <2>2
    <3> HIDE DEF lately
    <3>2. \A m \in missed' : m \in missed \/ m = lately
      BY <1>1 DEF lately
    <3> QED BY <2>3, <3>1, <3>2
  <2>5. \A d, e : Sooner(d, e)' <=> Sooner(d, e)
    BY <1>1 DEF Sooner, ByDate
  <2>6. SkipsAreExplained'
    BY <2>4, <2>5 DEF SkipsAreExplained, UpTo, Ahead
  <2>7. MissedAreWritten'
    BY <1>1, <2>1 DEF OneCInv, MissedAreWritten, LossesAreExplained, Written
  <2> QED BY <2>6, <2>7
<1>12. AllExplained'
  <2> SUFFICES ASSUME NEW i \in DOMAIN log', NEW j \in DOMAIN log', i < j,
                      Alike(log'[i], log'[j]), ~ log'[i].all, ~ log'[j].all,
                      log'[i].id \in log'[j].read
               PROVE  log'[j].time <= log'[i].time
    BY DEF AllExplained, Explained, Alike
  <2>1. i \in Nat /\ j \in Nat
    BY <1>4, <1>7, <1>8
  <2>2. CASE j \in DOMAIN log
    <3>1. i \in DOMAIN log
      BY <1>8, <1>7, <2>1, <2>2
    <3> QED BY <1>7, <2>2, <3>1 DEF OneCInv, AllExplained, Explained
  <2>3. CASE j \notin DOMAIN log
    <3> DEFINE k == j - Len(log)
    <3>1. k \in DOMAIN new /\ log'[j] = entries[k]
      BY <1>7, <2>3
    <3> HIDE DEF k
    <3>2. /\ ~ run.all /\ new[k] \in Range(run.got) /\ new[k] \in Range(new)
          /\ log'[j].time = new[k].time /\ log'[j].case = new[k].case
          /\ log'[j].activity = new[k].activity /\ log'[i].id \in Read
      BY <1>5, <3>1 DEF Range
    <3>3. PICK g \in Range(run.got) : g.id = log'[i].id
      BY <3>2 DEF Read
    <3>4. CASE i \in DOMAIN log
      <4>1. log'[i] = log[i]
        BY <1>7, <3>4
      <4>2. PICK n \in BOOLEAN : log[i].case = CaseOf(log[i].id, n)
        BY <1>9, <3>4 DEF OfDocument
      <4>3. CaseOf(new[k].id, run.names) = CaseOf(log[i].id, n)
        BY <1>6, <3>2, <4>1, <4>2 DEF Alike
      <4>4. n = run.names
        BY <1>2, <1>6, <1>9, <3>2, <3>4, <4>3, SameNames DEF OfDocument
      <4>5. Alike(new[k], g) /\ g.time = log[i].time
        BY <1>6, <1>9, <3>2, <3>3, <3>4, <4>1, <4>2, <4>4 DEF Alike, OfDocument
      <4> QED BY <1>3, <3>2, <4>1, <4>5
    <3>5. CASE i \notin DOMAIN log
      <4> DEFINE l == i - Len(log)
      <4>1. l \in DOMAIN new /\ log'[i] = entries[l]
        BY <1>7, <3>5
      <4> HIDE DEF l
      <4>2. Alike(new[k], new[l]) /\ new[l] \in Range(run.got) /\ log'[i].time = new[l].time
        BY <1>5, <3>2, <4>1 DEF Alike
      <4> QED BY <1>3, <3>2, <4>2
    <3> QED BY <3>4, <3>5
  <2> QED BY <2>2, <2>3
<1>13. StoredOnce'
  <2>1. \A k \in DOMAIN new, i \in DOMAIN log : new[k].id # log[i].id
    BY <1>3 DEF StoredAlready, Range
  <2>2. \A i, j \in DOMAIN log : log[i].id = log[j].id => i = j
    BY DEF OneCInv, StoredOnce
  <2>3. \A k, l \in DOMAIN new : new[k].id = new[l].id => k = l
    BY <1>3 DEF Distinct
  <2> SUFFICES ASSUME NEW i \in DOMAIN log', NEW j \in DOMAIN log', log'[i].id = log'[j].id
               PROVE  i = j
    BY DEF StoredOnce
  <2>4. CASE i \in DOMAIN log /\ j \in DOMAIN log
    BY <1>7, <2>2, <2>4
  <2>5. CASE i \in DOMAIN log /\ j \notin DOMAIN log
    BY <1>5, <1>7, <2>1, <2>5
  <2>6. CASE i \notin DOMAIN log /\ j \in DOMAIN log
    BY <1>5, <1>7, <2>1, <2>6
  <2>7. CASE i \notin DOMAIN log /\ j \notin DOMAIN log
    <3> DEFINE k == i - Len(log)
               l == j - Len(log)
    <3>1. /\ k \in DOMAIN new /\ log'[i] = entries[k]
          /\ l \in DOMAIN new /\ log'[j] = entries[l]
      BY <1>7, <2>7
    <3> HIDE DEF k, l
    <3>2. k = l
      BY <1>5, <2>3, <3>1
    <3>3. i \in Int /\ j \in Int /\ Len(log) \in Int
      BY <1>4, <1>7, <1>8
    <3> QED BY <3>2, <3>3 DEF k, l
  <2> QED BY <2>4, <2>5, <2>6, <2>7
<1> QED BY <1>10, <1>11, <1>12, <1>13

(* What was missed stays explained while documents stay what they are. *)
LEMMA MissedStay ==
  ASSUME OneCTypeOK, OneCInv, Kept, UNCHANGED missed
  PROVE  MissedAreWritten' /\ SkipsAreExplained'
<1>1. \A m \in missed : /\ m.docs \subseteq Docs /\ m.taken \subseteq Docs
                        /\ \A d \in m.docs \cup m.taken : Written(d)
  BY DEF OneCTypeOK, OneCInv, MissedAreWritten
<1>2. MissedAreWritten'
  BY <1>1 DEF MissedAreWritten, Kept
<1>3. ASSUME NEW m \in missed, NEW d \in m.docs
      PROVE  /\ {x \in m.docs : x = d \/ Sooner(x, d)'} = {x \in m.docs : x = d \/ Sooner(x, d)}
             /\ {e \in m.taken : Sooner(e, d)'} = {e \in m.taken : Sooner(e, d)}
  BY <1>1, SoonerStays
<1>4. SkipsAreExplained'
  BY <1>3 DEF OneCInv, SkipsAreExplained
<1> QED BY <1>2, <1>4

LEMMA OneCInvStep ==
  ASSUME OneCTypeOK, OneCTypeOK', OneCInv, [OneCNext]_oneCVars
  PROVE  OneCInv'
<1> DEFINE Rest == LogIsTrue' /\ AllExplained' /\ StoredOnce'
           Missed == MissedAreWritten' /\ SkipsAreExplained'
           Import == RowsAreTrue' /\ DueIsPosted' /\ LossesAreExplained'
<1> SUFFICES Rest /\ Missed /\ Import
  BY DEF OneCInv
<1>0. /\ RowsAreTrue /\ LogIsTrue /\ DueIsPosted /\ LossesAreExplained
      /\ AllExplained /\ StoredOnce
  BY DEF OneCInv
<1>k. UNCHANGED doc => Kept
  BY DEF Kept, Written
<1>l. UNCHANGED <<log, doc>> => LogIsTrue'
  BY <1>0 DEF LogIsTrue, OfDocument, Written, CaseOf
<1>e. UNCHANGED log => AllExplained' /\ StoredOnce'
  BY <1>0 DEF AllExplained, Explained, StoredOnce
<1>m. UNCHANGED <<missed, doc>> => Missed
  BY <1>k, MissedStay
<1>i. run' = NoRun => Import
  <2> SUFFICES ASSUME run' = NoRun PROVE Import
    OBVIOUS
  <2>1. run'.rows = <<>> /\ run'.got = <<>> /\ run'.due = {} /\ run'.taken = {}
    BY DEF NoRun
  <2>2. Lost' = {} /\ run'.taken = {}
    BY <2>1 DEF Lost
  <2>3. LossesAreExplained'
    BY <2>2, NothingLost
  <2> QED BY <2>1, <2>3 DEF RowsAreTrue, DueIsPosted, Range
<1>s. UNCHANGED <<doc, run>> => Import
  <2> SUFFICES ASSUME UNCHANGED <<doc, run>>
               PROVE  Import
    OBVIOUS
  <2>1. RowsAreTrue'
    BY <1>0 DEF RowsAreTrue, Written, EventOf, CaseOf
  <2>2. Lost' = Lost
    BY DEF Lost, ListedDocs, InWindow, ByDate, Read, Place, RowsHave
  <2>3. \A d : Written(d)' <=> Written(d)
    BY DEF Written
  <2>4. DueIsPosted'
    BY <1>0, <2>3 DEF DueIsPosted, InWindow
  <2>5. LossesAreExplained'
    BY <1>0, <2>2, <2>3 DEF LossesAreExplained, UpTo, Ahead, Sooner, ByDate
  <2> QED BY <2>1, <2>4, <2>5
<1> HIDE DEF Import, Missed
<1>1. CASE NextDay
  BY <1>1, <1>l, <1>e, <1>m, <1>s DEF NextDay
<1>2. ASSUME NEW d \in Docs, Post(d)
      PROVE  Rest /\ Missed /\ Import
  BY <1>0, <1>2, <1>e, PostKeeps, MissedStay, TruthIsKept DEF Post, Missed, Import
<1>3. ASSUME NEW d \in Docs, Unpost(d)
      PROVE  Rest /\ Missed /\ Import
  <2>1. run'.rows = run.rows /\ run'.got = run.got /\ run'.names = run.names
    BY <1>3 DEF Unpost, OneCTypeOK
  <2> QED BY <1>0, <1>3, <1>e, <2>1, UnpostKeeps, MissedStay, TruthIsKept DEF Unpost, Missed, Import
<1>4. CASE Begin
  BY <1>4, <1>l, <1>e, <1>m, BeginKeeps DEF Begin, Import
<1>5. CASE Page
  BY <1>5, <1>l, <1>e, <1>m, PageKeeps DEF Page, Import
<1>6. CASE KindFails
  BY <1>6, <1>l, <1>e, <1>m, KindFailsKeeps DEF KindFails, Import
<1>7. CASE Push
  BY <1>7, <1>i, PushKeeps DEF Push, Missed
<1>8. CASE GiveUp
  BY <1>8, <1>l, <1>e, <1>m, <1>i DEF GiveUp
<1>9. CASE UNCHANGED oneCVars
  BY <1>9, <1>l, <1>e, <1>m, <1>s DEF oneCVars
<1> QED BY <1>1, <1>2, <1>3, <1>4, <1>5, <1>6, <1>7, <1>8, <1>9 DEF OneCNext

LEMMA OneCInvariant == OneCSpec => []OneCInv
<1>1. OneCInit => OneCInv
  <2> SUFFICES ASSUME OneCInit PROVE OneCInv
    OBVIOUS
  <2>1. run.rows = <<>> /\ run.got = <<>> /\ run.due = {} /\ run.taken = {} /\ log = <<>> /\ missed = {}
    BY DEF OneCInit, NoRun
  <2>2. Lost = {}
    BY <2>1 DEF Lost
  <2>3. LossesAreExplained
    BY <2>1 DEF LossesAreExplained
  <2> QED BY <2>1, <2>3 DEF OneCInv, RowsAreTrue, LogIsTrue, DueIsPosted, MissedAreWritten,
             SkipsAreExplained, AllExplained, StoredOnce, Range
<1>2. OneCTypeOK /\ OneCTypeOK' /\ OneCInv /\ [OneCNext]_oneCVars => OneCInv'
  BY OneCInvStep
<1> QED BY <1>1, <1>2, OneCTypeCorrect, PTL DEF OneCSpec

(* What an import should have read and did not has moved behind the place of a page for a
   document that was taken back: up to any document that is missed, no more are missed
   than were taken back before it, for any number of documents and any size of a page
   (Client.pages). *)
THEOREM SkipsHaveCauses == OneCSpec => []SkipsAreExplained
<1>1. OneCInv => SkipsAreExplained
  BY DEF OneCInv
<1> QED BY <1>1, OneCInvariant, PTL

(* Two events of a log are of two documents, and a case has an activity twice only if no
   import could tell. *)
THEOREM NoRepeatUnexplained == OneCSpec => []RepeatsAreExplained
<1>1. OneCInv => RepeatsAreExplained
  BY DEF OneCInv, AllExplained, Explained, RepeatsAreExplained
<1> QED BY <1>1, OneCInvariant, PTL

(* No document is stored twice, however often it is read. *)
THEOREM DocumentsAreStoredOnce == OneCSpec => []StoredOnce
<1>1. OneCInv => StoredOnce
  BY DEF OneCInv
<1> QED BY <1>1, OneCInvariant, PTL
=============================================================================
