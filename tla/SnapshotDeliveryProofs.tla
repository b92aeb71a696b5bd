----------------------- MODULE SnapshotDeliveryProofs -----------------------
(***************************************************************************)
(* Theorems about SnapshotDelivery for every set of publications, nodes    *)
(* and replicas, every number of attempts and every order of snapshot ids. *)
(* The properties are not inductive by themselves: a late PUT carries the  *)
(* snapshot of its publication, so the invariant IInv also says that what  *)
(* is sent, handled, confirmed or published was stamped before (StampInv), *)
(* how calls and attempts go together (CallInv), that an answer "ok" of a  *)
(* node follows its save (SavedInv), that a file holds what was saved      *)
(* (FileInv), and that an undisturbed node has at most one handler, of the *)
(* snapshot it serves (LoneInv).                                           *)
(***************************************************************************)
EXTENDS SnapshotDelivery, TLAPS

Stamped(p) == pc[p] \in {"publishing", "replicating", "done"}

\* A call is due only while attempts are left, and is unused until its phase.
CallInv ==
  /\ \A c \in Publications \X Peers :
       /\ call[c] = "unused" => attempts[c] = 0
       /\ call[c] = "due" => attempts[c] < MaxAttempts
  /\ \A p \in Publications, t \in Peers :
       /\ pc[p] \in {"idle", "reading", "refused"} => call[<<p, t>>] = "unused"
       /\ pc[p] = "publishing" /\ t \in Replicas => call[<<p, t>>] = "unused"

\* Whatever was sent, is handled or was confirmed was stamped before.
StampInv ==
  /\ \A p \in Publications : /\ Stamped(p) => snap[p] \in Snapshots
                             /\ pc[p] = "reading" => snap[p].routes \in 0..MaxRoutes
  /\ \A m \in wire \cup warming \cup saving : Stamped(m[1])
  /\ \A h \in warming \cup saving : h[2] \in Nodes
  /\ \A c \in confirmed : Stamped(c[1])

PublishedSaved == \A p \in published : \A t \in targets[p] : <<p, t>> \in saved

\* A node that answered "ok" has saved, and so has every target of a
\* publication recorded as ok.
SavedInv ==
  /\ \A p \in Publications, t \in Nodes : call[<<p, t>>] = "ok" => <<p, t>> \in saved
  /\ \A p \in published : pc[p] \in {"replicating", "done"}
  /\ PublishedSaved

\* What was saved was stamped before, and the file holds one of the snapshots
\* that were saved.
FileInv ==
  \A p \in Publications, t \in Nodes : <<p, t>> \in saved =>
    /\ Stamped(p)
    /\ \E q \in Publications : <<q, t>> \in saved /\ file[t] = snap[q]

\* A node whose PUTs never overlapped and never failed has at most one handler,
\* which is of the snapshot the node serves, or it serves what its file holds.
LoneInv ==
  \A t \in Nodes : t \notin disturbed =>
    /\ \A h, g \in warming \cup saving : h[2] = t /\ g[2] = t => h = g
    /\ \A h \in warming : h[2] = t => h \notin saving
    /\ \A h \in warming \cup saving : h[2] = t => memory[t] = snap[h[1]]
    /\ ~Busy(t) => memory[t] = file[t]

IInv == TypeOK /\ CallInv /\ StampInv /\ SavedInv /\ FileInv /\ LoneInv /\ ConfirmedMeansHeld

-----------------------------------------------------------------------------
\* "Not older than" is transitive on the snapshots that a replica compares.
LEMMA FreshnessTransitive ==
  ASSUME NEW a \in Snapshots, NEW b \in Snapshots, NEW c \in Snapshots,
         ~Older(a, b), ~Older(b, c)
  PROVE  ~Older(a, c)
<1>1. /\ {a.generatedAt, b.generatedAt, c.generatedAt} \subseteq Int
      /\ {IdRank[<<a.generatedAt, a.routes>>], IdRank[<<b.generatedAt, b.routes>>],
          IdRank[<<c.generatedAt, c.routes>>]} \subseteq Int
  BY DeliveryAssumption DEF Snapshots
<1>2. QED
  BY <1>1 DEF Older

\* An answer touches only the call that still waits for it.
LEMMA AnswerEffect ==
  ASSUME TypeOK, NEW p \in Publications, NEW t \in Peers, NEW n,
         NEW answer \in {"ok", "inconsistent", "error", "reject"}, Answer(p, t, n, answer)
  PROVE  /\ call' \in [Publications \X Peers -> {"unused", "due", "sent"} \cup Settled]
         /\ \A c \in Publications \X Peers : call'[c] = call[c] \/
              /\ c = <<p, t>> /\ call[c] = "sent"
              /\ call'[c] \in {"due"} \cup Settled
              /\ call'[c] = "due" => attempts[c] < MaxAttempts
BY DEF TypeOK, Answer, Outcome, AfterFailure, Settled


\* Every step preserves TypeOK.
LEMMA StepType == IInv /\ [Next]_vars => TypeOK'
<1> SUFFICES ASSUME IInv, [Next]_vars PROVE TypeOK'
  OBVIOUS
<1> USE DeliveryAssumption DEF IInv
<1>1. ASSUME RouteChange PROVE TypeOK'
  BY <1>1 DEF RouteChange, TypeOK, nodeVars, netVars, Peers, Settled, Snapshots, None
<1>2. ASSUME Tick PROVE TypeOK'
  BY <1>2 DEF Tick, TypeOK, nodeVars, netVars, Peers, Settled, Snapshots, None
<1>3. ASSUME NEW p \in Publications, StartPublish(p) PROVE TypeOK'
  BY <1>3 DEF StartPublish, TypeOK, nodeVars, netVars, Peers, Settled, Snapshots, None
<1>4. ASSUME NEW p \in Publications, NEW T \in SUBSET Nodes, Stamp(p, T) PROVE TypeOK'
  BY <1>4 DEF Stamp, TypeOK, nodeVars, Due, Peers, Settled, Snapshots, None
<1>5. ASSUME NEW p \in Publications, NoTargets(p) PROVE TypeOK'
  BY <1>5 DEF NoTargets, TypeOK, nodeVars, netVars, Peers, Settled, Snapshots, None
<1>6. ASSUME NEW p \in Publications, Record(p) PROVE TypeOK'
  BY <1>6 DEF Record, TypeOK, nodeVars, Due, Peers, Settled, Snapshots, None
<1>7. ASSUME NEW p \in Publications, Report(p) PROVE TypeOK'
  BY <1>7 DEF Report, TypeOK, nodeVars, netVars, Peers, Settled, Snapshots, None
<1>8. ASSUME NEW p \in Publications, NEW t \in Peers, Send(p, t) PROVE TypeOK'
  <2>1. attempts[<<p, t>>] \in Nat /\ attempts[<<p, t>>] + 1 \in 1..MaxAttempts
    BY <1>8 DEF Send, TypeOK, CallInv
  <2>2. attempts' \in [Publications \X Peers -> 0..MaxAttempts]
    BY <1>8, <2>1 DEF Send, TypeOK
  <2>3. wire' \in SUBSET (Publications \X Peers \X (1..MaxAttempts))
    BY <1>8, <2>1 DEF Send, TypeOK
  <2>4. QED
    BY <1>8, <2>2, <2>3 DEF Send, TypeOK, nodeVars
<1>9. ASSUME NEW p \in Publications, NEW t \in Peers, Timeout(p, t) PROVE TypeOK'
  BY <1>9 DEF Timeout, TypeOK, nodeVars, AfterFailure, Peers, Settled, Snapshots, None
<1>10. ASSUME NEW p \in Publications, NEW t \in Peers, NEW n \in 1..MaxAttempts, Refuse(p, t, n) PROVE TypeOK'
  BY <1>10 DEF Refuse, TypeOK, nodeVars, Answer, Outcome, AfterFailure, Peers, Settled, Snapshots, None
<1>11. ASSUME NEW p \in Publications, NEW t \in Peers, NEW n \in 1..MaxAttempts, Install(p, t, n) PROVE TypeOK'
  <2>1. snap[p] \in Snapshots
    BY <1>11 DEF Install, StampInv
  <2>2. memory' \in [Nodes -> Snapshots \cup {None}]
    BY <1>11, <2>1 DEF Install, TypeOK
  <2>3. {wire', warming'} \subseteq SUBSET (Publications \X Peers \X (1..MaxAttempts))
    BY <1>11 DEF Install, TypeOK
  <2>4. QED
    BY <1>11, <2>2, <2>3 DEF Install, TypeOK
<1>12. ASSUME NEW p \in Publications, NEW t \in Peers, NEW n \in 1..MaxAttempts, Warmed(p, t, n) PROVE TypeOK'
  BY <1>12 DEF Warmed, TypeOK, netVars, Peers, Settled, Snapshots, None
<1>13. ASSUME NEW p \in Publications, NEW t \in Peers, NEW n \in 1..MaxAttempts, HandlerFails(p, t, n) PROVE TypeOK'
  <2>1. call' \in [Publications \X Peers -> {"unused", "due", "sent"} \cup Settled]
    <3>1. PICK answer \in {"error", "reject"} : Answer(p, t, n, answer)
      BY <1>13 DEF HandlerFails
    <3>2. answer \in {"ok", "inconsistent", "error", "reject"} /\ TypeOK
      BY <3>1
    <3>3. QED
      BY ONLY <3>1, <3>2, p \in Publications, t \in Peers, AnswerEffect
  <2>2. t \in Nodes
    BY <1>13 DEF HandlerFails, StampInv
  <2>3. QED
    BY <1>13, <2>1, <2>2 DEF HandlerFails, TypeOK
<1>14. ASSUME NEW p \in Publications, NEW t \in Peers, NEW n \in 1..MaxAttempts, Save(p, t, n) PROVE TypeOK'
  <2>1. call' \in [Publications \X Peers -> {"unused", "due", "sent"} \cup Settled]
    BY <1>14, AnswerEffect DEF Save
  <2>2. t \in Nodes /\ snap[p] \in Snapshots
    BY <1>14 DEF Save, StampInv
  <2>3. file' \in [Nodes -> Snapshots \cup {None}]
    BY <1>14, <2>2 DEF Save, TypeOK
  <2>4. QED
    BY <1>14, <2>1, <2>2, <2>3 DEF Save, TypeOK
<1>15. ASSUME NEW t \in Nodes, Restart(t) PROVE TypeOK'
  BY <1>15 DEF Restart, TypeOK, netVars, Peers, Settled, Snapshots, None
<1>16. ASSUME NEW p \in Publications, NEW t \in Peers, NEW n \in 1..MaxAttempts, Replicate(p, t, n) PROVE TypeOK'
  <2>1. call' \in [Publications \X Peers -> {"unused", "due", "sent"} \cup Settled]
    BY <1>16, AnswerEffect DEF Replicate
  <2>2. snap[p] \in Snapshots
    BY <1>16 DEF Replicate, StampInv
  <2>3. /\ replica' \in [Replicas -> Snapshots \cup {None}]
        /\ confirmed' \subseteq Publications \X Replicas
    <3>1. /\ replica' = replica \/ replica' = [replica EXCEPT ![t] = snap[p]]
          /\ confirmed' \subseteq confirmed \cup {<<p, t>>}
          /\ t \in Replicas
      BY <1>16 DEF Replicate
    <3>2. QED
      BY <2>2, <3>1 DEF TypeOK
  <2>4. wire' \in SUBSET (Publications \X Peers \X (1..MaxAttempts))
    BY <1>16 DEF Replicate, TypeOK
  <2>5. QED
    BY <1>16, <2>1, <2>3, <2>4 DEF Replicate, TypeOK, nodeVars
<1>17. ASSUME NEW r \in Replicas, ReplicaRestart(r) PROVE TypeOK'
  BY <1>17 DEF ReplicaRestart, TypeOK, nodeVars, netVars, Peers, Settled, Snapshots, None
<1>18. ASSUME UNCHANGED vars PROVE TypeOK'
  BY <1>18 DEF vars, nodeVars, netVars, TypeOK, Peers, Settled, Snapshots, None
<1>19. QED
  BY <1>1, <1>2, <1>3, <1>4, <1>5, <1>6, <1>7, <1>8, <1>9, <1>10, <1>11, <1>12, <1>13, <1>14, <1>15, <1>16, <1>17, <1>18 DEF Next, Publish, Handle, Quiet

\* Every step preserves CallInv.
LEMMA StepCall == IInv /\ [Next]_vars => CallInv'
<1> SUFFICES ASSUME IInv, [Next]_vars PROVE CallInv'
  OBVIOUS
<1> USE DeliveryAssumption DEF IInv
<1>1. ASSUME RouteChange PROVE CallInv'
  BY <1>1 DEF RouteChange, CallInv, nodeVars, netVars, TypeOK, Peers, Settled
<1>2. ASSUME Tick PROVE CallInv'
  BY <1>2 DEF Tick, CallInv, nodeVars, netVars, TypeOK, Peers, Settled
<1>3. ASSUME NEW p \in Publications, StartPublish(p) PROVE CallInv'
  BY <1>3 DEF StartPublish, CallInv, nodeVars, netVars, TypeOK, Peers, Settled
<1>4. ASSUME NEW p \in Publications, NEW T \in SUBSET Nodes, Stamp(p, T) PROVE CallInv'
  BY <1>4 DEF Stamp, CallInv, nodeVars, Due, TypeOK, Peers, Settled
<1>5. ASSUME NEW p \in Publications, NoTargets(p) PROVE CallInv'
  BY <1>5 DEF NoTargets, CallInv, nodeVars, netVars, TypeOK, Peers, Settled
<1>6. ASSUME NEW p \in Publications, Record(p) PROVE CallInv'
  BY <1>6 DEF Record, CallInv, nodeVars, Due, TypeOK, Peers, Settled
<1>7. ASSUME NEW p \in Publications, Report(p) PROVE CallInv'
  BY <1>7 DEF Report, CallInv, nodeVars, netVars, TypeOK, Peers, Settled
<1>8. ASSUME NEW p \in Publications, NEW t \in Peers, Send(p, t) PROVE CallInv'
  BY <1>8 DEF Send, CallInv, nodeVars, TypeOK, Peers, Settled
<1>9. ASSUME NEW p \in Publications, NEW t \in Peers, Timeout(p, t) PROVE CallInv'
  BY <1>9 DEF Timeout, CallInv, nodeVars, AfterFailure, TypeOK, Peers, Settled
<1>10. ASSUME NEW p \in Publications, NEW t \in Peers, NEW n \in 1..MaxAttempts, Refuse(p, t, n) PROVE CallInv'
  BY <1>10 DEF Refuse, CallInv, nodeVars, Answer, Outcome, AfterFailure, TypeOK, Peers, Settled
<1>11. ASSUME NEW p \in Publications, NEW t \in Peers, NEW n \in 1..MaxAttempts, Install(p, t, n) PROVE CallInv'
  BY <1>11 DEF Install, CallInv, TypeOK, Peers, Settled
<1>12. ASSUME NEW p \in Publications, NEW t \in Peers, NEW n \in 1..MaxAttempts, Warmed(p, t, n) PROVE CallInv'
  BY <1>12 DEF Warmed, CallInv, netVars, TypeOK, Peers, Settled
<1>13. ASSUME NEW p \in Publications, NEW t \in Peers, NEW n \in 1..MaxAttempts, HandlerFails(p, t, n) PROVE CallInv'
  <2>1. PICK answer \in {"error", "reject"} : Answer(p, t, n, answer)
    BY <1>13 DEF HandlerFails
  <2>2. QED
    <3>1. \A c \in Publications \X Peers : call'[c] = call[c] \/
              /\ call[c] = "sent" /\ call'[c] # "unused"
              /\ call'[c] = "due" => attempts[c] < MaxAttempts
      BY <2>1, AnswerEffect DEF Settled
    <3>2. \A q \in Publications, u \in Peers :
            call[<<q, u>>] = "unused" => call'[<<q, u>>] = "unused"
      BY <3>1
    <3>3. pc' = pc /\ attempts' = attempts
      BY <1>13 DEF HandlerFails
    <3>4. QED
      BY <3>1, <3>2, <3>3 DEF CallInv
<1>14. ASSUME NEW p \in Publications, NEW t \in Peers, NEW n \in 1..MaxAttempts, Save(p, t, n) PROVE CallInv'
  BY <1>14 DEF Save, CallInv, Answer, Outcome, AfterFailure, TypeOK, Peers, Settled
<1>15. ASSUME NEW t \in Nodes, Restart(t) PROVE CallInv'
  BY <1>15 DEF Restart, CallInv, netVars, TypeOK, Peers, Settled
<1>16. ASSUME NEW p \in Publications, NEW t \in Peers, NEW n \in 1..MaxAttempts, Replicate(p, t, n) PROVE CallInv'
  <2>1. PICK answer \in {"ok", "inconsistent"} : Answer(p, t, n, answer)
    BY <1>16 DEF Replicate
  <2>2. QED
    <3>1. \A c \in Publications \X Peers : call'[c] = call[c] \/
              /\ call[c] = "sent" /\ call'[c] # "unused"
              /\ call'[c] = "due" => attempts[c] < MaxAttempts
      BY <2>1, AnswerEffect DEF Settled
    <3>2. \A q \in Publications, u \in Peers :
            call[<<q, u>>] = "unused" => call'[<<q, u>>] = "unused"
      BY <3>1
    <3>3. pc' = pc /\ attempts' = attempts
      BY <1>16 DEF Replicate
    <3>4. QED
      BY <3>1, <3>2, <3>3 DEF CallInv
<1>17. ASSUME NEW r \in Replicas, ReplicaRestart(r) PROVE CallInv'
  BY <1>17 DEF ReplicaRestart, CallInv, nodeVars, netVars, TypeOK, Peers, Settled
<1>18. ASSUME UNCHANGED vars PROVE CallInv'
  BY <1>18 DEF vars, nodeVars, netVars, CallInv, TypeOK, Peers, Settled
<1>19. QED
  BY <1>1, <1>2, <1>3, <1>4, <1>5, <1>6, <1>7, <1>8, <1>9, <1>10, <1>11, <1>12, <1>13, <1>14, <1>15, <1>16, <1>17, <1>18 DEF Next, Publish, Handle, Quiet

\* Every step preserves StampInv.
LEMMA StepStamp == IInv /\ [Next]_vars => StampInv'
<1> SUFFICES ASSUME IInv, [Next]_vars PROVE StampInv'
  OBVIOUS
<1> USE DeliveryAssumption DEF IInv
<1>1. ASSUME RouteChange PROVE StampInv'
  BY <1>1 DEF RouteChange, StampInv, nodeVars, netVars, TypeOK, Peers, Settled, Snapshots, CallInv, Stamped
<1>2. ASSUME Tick PROVE StampInv'
  BY <1>2 DEF Tick, StampInv, nodeVars, netVars, TypeOK, Peers, Settled, Snapshots, CallInv, Stamped
<1>3. ASSUME NEW p \in Publications, StartPublish(p) PROVE StampInv'
  BY <1>3 DEF StartPublish, StampInv, nodeVars, netVars, TypeOK, Peers, Settled, Snapshots, CallInv, Stamped
<1>4. ASSUME NEW p \in Publications, NEW T \in SUBSET Nodes, Stamp(p, T) PROVE StampInv'
  BY <1>4 DEF Stamp, StampInv, nodeVars, Due, TypeOK, Peers, Settled, Snapshots, CallInv, Stamped
<1>5. ASSUME NEW p \in Publications, NoTargets(p) PROVE StampInv'
  BY <1>5 DEF NoTargets, StampInv, nodeVars, netVars, TypeOK, Peers, Settled, Snapshots, CallInv, Stamped
<1>6. ASSUME NEW p \in Publications, Record(p) PROVE StampInv'
  BY <1>6 DEF Record, StampInv, nodeVars, Due, TypeOK, Peers, Settled, Snapshots, CallInv, Stamped
<1>7. ASSUME NEW p \in Publications, Report(p) PROVE StampInv'
  BY <1>7 DEF Report, StampInv, nodeVars, netVars, TypeOK, Peers, Settled, Snapshots, CallInv, Stamped
<1>8. ASSUME NEW p \in Publications, NEW t \in Peers, Send(p, t) PROVE StampInv'
  BY <1>8 DEF Send, StampInv, nodeVars, TypeOK, Peers, Settled, Snapshots, CallInv, Stamped
<1>9. ASSUME NEW p \in Publications, NEW t \in Peers, Timeout(p, t) PROVE StampInv'
  BY <1>9 DEF Timeout, StampInv, nodeVars, AfterFailure, TypeOK, Peers, Settled, Snapshots, CallInv, Stamped
<1>10. ASSUME NEW p \in Publications, NEW t \in Peers, NEW n \in 1..MaxAttempts, Refuse(p, t, n) PROVE StampInv'
  BY <1>10 DEF Refuse, StampInv, nodeVars, Answer, Outcome, AfterFailure, TypeOK, Peers, Settled, Snapshots, CallInv, Stamped
<1>11. ASSUME NEW p \in Publications, NEW t \in Peers, NEW n \in 1..MaxAttempts, Install(p, t, n) PROVE StampInv'
  BY <1>11 DEF Install, StampInv, TypeOK, Peers, Settled, Snapshots, CallInv, Stamped
<1>12. ASSUME NEW p \in Publications, NEW t \in Peers, NEW n \in 1..MaxAttempts, Warmed(p, t, n) PROVE StampInv'
  BY <1>12 DEF Warmed, StampInv, netVars, TypeOK, Peers, Settled, Snapshots, CallInv, Stamped
<1>13. ASSUME NEW p \in Publications, NEW t \in Peers, NEW n \in 1..MaxAttempts, HandlerFails(p, t, n) PROVE StampInv'
  BY <1>13 DEF HandlerFails, StampInv, Answer, Outcome, AfterFailure, TypeOK, Peers, Settled, Snapshots, CallInv, Stamped
<1>14. ASSUME NEW p \in Publications, NEW t \in Peers, NEW n \in 1..MaxAttempts, Save(p, t, n) PROVE StampInv'
  BY <1>14 DEF Save, StampInv, Answer, Outcome, AfterFailure, TypeOK, Peers, Settled, Snapshots, CallInv, Stamped
<1>15. ASSUME NEW t \in Nodes, Restart(t) PROVE StampInv'
  BY <1>15 DEF Restart, StampInv, netVars, TypeOK, Peers, Settled, Snapshots, CallInv, Stamped
<1>16. ASSUME NEW p \in Publications, NEW t \in Peers, NEW n \in 1..MaxAttempts, Replicate(p, t, n) PROVE StampInv'
  BY <1>16 DEF Replicate, StampInv, nodeVars, Answer, Outcome, AfterFailure, TypeOK, Peers, Settled, Snapshots, CallInv, Stamped
<1>17. ASSUME NEW r \in Replicas, ReplicaRestart(r) PROVE StampInv'
  BY <1>17 DEF ReplicaRestart, StampInv, nodeVars, netVars, TypeOK, Peers, Settled, Snapshots, CallInv, Stamped
<1>18. ASSUME UNCHANGED vars PROVE StampInv'
  BY <1>18 DEF vars, nodeVars, netVars, StampInv, TypeOK, Peers, Settled, Snapshots, CallInv, Stamped
<1>19. QED
  BY <1>1, <1>2, <1>3, <1>4, <1>5, <1>6, <1>7, <1>8, <1>9, <1>10, <1>11, <1>12, <1>13, <1>14, <1>15, <1>16, <1>17, <1>18 DEF Next, Publish, Handle, Quiet

\* Every step preserves SavedInv.
LEMMA StepSaved == IInv /\ [Next]_vars => SavedInv'
<1> SUFFICES ASSUME IInv, [Next]_vars PROVE SavedInv'
  OBVIOUS
<1> USE DeliveryAssumption DEF IInv
<1>1. ASSUME RouteChange PROVE SavedInv'
  BY <1>1 DEF RouteChange, SavedInv, nodeVars, netVars, TypeOK, Peers, CallInv, PublishedSaved
<1>2. ASSUME Tick PROVE SavedInv'
  BY <1>2 DEF Tick, SavedInv, nodeVars, netVars, TypeOK, Peers, CallInv, PublishedSaved
<1>3. ASSUME NEW p \in Publications, StartPublish(p) PROVE SavedInv'
  BY <1>3 DEF StartPublish, SavedInv, nodeVars, netVars, TypeOK, Peers, CallInv, PublishedSaved
<1>4. ASSUME NEW p \in Publications, NEW T \in SUBSET Nodes, Stamp(p, T) PROVE SavedInv'
  BY <1>4 DEF Stamp, SavedInv, nodeVars, Due, TypeOK, Peers, CallInv, PublishedSaved
<1>5. ASSUME NEW p \in Publications, NoTargets(p) PROVE SavedInv'
  BY <1>5 DEF NoTargets, SavedInv, nodeVars, netVars, TypeOK, Peers, CallInv, PublishedSaved
<1>6. ASSUME NEW p \in Publications, Record(p) PROVE SavedInv'
  BY <1>6 DEF Record, SavedInv, nodeVars, Due, TypeOK, Peers, AllOk, CallInv, PublishedSaved
<1>7. ASSUME NEW p \in Publications, Report(p) PROVE SavedInv'
  BY <1>7 DEF Report, SavedInv, nodeVars, netVars, TypeOK, Peers, CallInv, PublishedSaved
<1>8. ASSUME NEW p \in Publications, NEW t \in Peers, Send(p, t) PROVE SavedInv'
  BY <1>8 DEF Send, SavedInv, nodeVars, TypeOK, Peers, CallInv, PublishedSaved
<1>9. ASSUME NEW p \in Publications, NEW t \in Peers, Timeout(p, t) PROVE SavedInv'
  BY <1>9 DEF Timeout, SavedInv, nodeVars, AfterFailure, TypeOK, Peers, CallInv, PublishedSaved
<1>10. ASSUME NEW p \in Publications, NEW t \in Peers, NEW n \in 1..MaxAttempts, Refuse(p, t, n) PROVE SavedInv'
  BY <1>10 DEF Refuse, SavedInv, nodeVars, Answer, Outcome, AfterFailure, TypeOK, Peers, CallInv, PublishedSaved
<1>11. ASSUME NEW p \in Publications, NEW t \in Peers, NEW n \in 1..MaxAttempts, Install(p, t, n) PROVE SavedInv'
  BY <1>11 DEF Install, SavedInv, TypeOK, Peers, CallInv, PublishedSaved
<1>12. ASSUME NEW p \in Publications, NEW t \in Peers, NEW n \in 1..MaxAttempts, Warmed(p, t, n) PROVE SavedInv'
  BY <1>12 DEF Warmed, SavedInv, netVars, TypeOK, Peers, CallInv, PublishedSaved
<1>13. ASSUME NEW p \in Publications, NEW t \in Peers, NEW n \in 1..MaxAttempts, HandlerFails(p, t, n) PROVE SavedInv'
  BY <1>13 DEF HandlerFails, SavedInv, Answer, Outcome, AfterFailure, TypeOK, Peers, CallInv, PublishedSaved
<1>14. ASSUME NEW p \in Publications, NEW t \in Peers, NEW n \in 1..MaxAttempts, Save(p, t, n) PROVE SavedInv'
  BY <1>14 DEF Save, SavedInv, Answer, Outcome, AfterFailure, TypeOK, Peers, CallInv, PublishedSaved
<1>15. ASSUME NEW t \in Nodes, Restart(t) PROVE SavedInv'
  BY <1>15 DEF Restart, SavedInv, netVars, TypeOK, Peers, CallInv, PublishedSaved
<1>16. ASSUME NEW p \in Publications, NEW t \in Peers, NEW n \in 1..MaxAttempts, Replicate(p, t, n) PROVE SavedInv'
  BY <1>16 DEF Replicate, SavedInv, nodeVars, Answer, Outcome, AfterFailure, TypeOK, Peers, CallInv, PublishedSaved
<1>17. ASSUME NEW r \in Replicas, ReplicaRestart(r) PROVE SavedInv'
  BY <1>17 DEF ReplicaRestart, SavedInv, nodeVars, netVars, TypeOK, Peers, CallInv, PublishedSaved
<1>18. ASSUME UNCHANGED vars PROVE SavedInv'
  BY <1>18 DEF vars, nodeVars, netVars, SavedInv, TypeOK, Peers, CallInv, PublishedSaved
<1>19. QED
  BY <1>1, <1>2, <1>3, <1>4, <1>5, <1>6, <1>7, <1>8, <1>9, <1>10, <1>11, <1>12, <1>13, <1>14, <1>15, <1>16, <1>17, <1>18 DEF Next, Publish, Handle, Quiet

\* A step that keeps files, saves and the snapshots of stamped publications keeps
\* FileInv.
LEMMA FilesKept ==
  ASSUME FileInv, UNCHANGED <<saved, file>>,
         \A p \in Publications : Stamped(p) => Stamped(p)' /\ snap'[p] = snap[p]
  PROVE  FileInv'
<1>1. ASSUME NEW p \in Publications, NEW t \in Nodes, <<p, t>> \in saved
      PROVE  Stamped(p)' /\ \E q \in Publications : <<q, t>> \in saved /\ file[t] = snap'[q]
  <2>1. PICK q \in Publications : <<q, t>> \in saved /\ file[t] = snap[q]
    BY <1>1 DEF FileInv
  <2>2. Stamped(p) /\ Stamped(q)
    BY <1>1, <2>1 DEF FileInv
  <2> QED
    BY <2>1, <2>2
<1> QED
  BY <1>1 DEF FileInv

\* Every step preserves FileInv.
LEMMA StepFile == IInv /\ [Next]_vars => FileInv'
<1> SUFFICES ASSUME IInv, [Next]_vars PROVE FileInv'
  OBVIOUS
<1> FileInv /\ TypeOK /\ StampInv
  BY DEF IInv
<1>1. ASSUME UNCHANGED <<saved, file, snap, pc>> PROVE FileInv'
  BY <1>1, FilesKept DEF Stamped
<1>2. ASSUME NEW p \in Publications, StartPublish(p) \/ NoTargets(p) \/ Record(p) \/ Report(p)
               \/ \E T \in SUBSET Nodes : Stamp(p, T)
      PROVE  FileInv'
  <2>1. UNCHANGED <<saved, file>>
    BY <1>2 DEF StartPublish, NoTargets, Record, Report, Stamp, nodeVars
  <2>2. \A q \in Publications : Stamped(q) => Stamped(q)' /\ snap'[q] = snap[q]
    BY <1>2 DEF StartPublish, NoTargets, Record, Report, Stamp, Stamped, TypeOK
  <2> QED
    BY <2>1, <2>2, FilesKept
<1>3. ASSUME NEW p \in Publications, NEW t \in Peers, NEW n \in 1..MaxAttempts, Save(p, t, n) PROVE FileInv'
  <2>1. t \in Nodes /\ Stamped(p) /\ UNCHANGED <<snap, pc>>
    BY <1>3 DEF Save, StampInv
  <2>2. file' = [file EXCEPT ![t] = snap[p]] /\ saved' = saved \cup {<<p, t>>}
    BY <1>3 DEF Save
  <2>3. ASSUME NEW q \in Publications, NEW u \in Nodes, <<q, u>> \in saved'
        PROVE  Stamped(q) /\ \E x \in Publications : <<x, u>> \in saved' /\ file'[u] = snap[x]
    <3>1. CASE u = t
      <4>1. file'[u] = snap[p] /\ <<p, u>> \in saved'
        BY <2>1, <2>2, <3>1 DEF TypeOK
      <4>2. Stamped(q)
        BY <2>1, <2>2, <2>3 DEF FileInv
      <4> QED
        BY <4>1, <4>2
    <3>2. CASE u # t
      <4>1. <<q, u>> \in saved /\ file'[u] = file[u]
        BY <2>2, <2>3, <3>2 DEF TypeOK
      <4> QED
        BY <2>2, <4>1 DEF FileInv
    <3> QED
      BY <3>1, <3>2
  <2> QED
    BY <2>1, <2>3 DEF FileInv, Stamped
<1>4. ASSUME RouteChange \/ Tick \/ UNCHANGED vars \/ (\E t \in Nodes : Restart(t)) \/ (\E t \in Replicas : ReplicaRestart(t))
      PROVE  UNCHANGED <<saved, file, snap, pc>>
  BY <1>4 DEF RouteChange, Tick, Restart, ReplicaRestart, vars, nodeVars
<1>5. ASSUME NEW p \in Publications, NEW t \in Peers, Send(p, t) \/ Timeout(p, t)
      PROVE  UNCHANGED <<saved, file, snap, pc>>
  BY <1>5 DEF Send, Timeout, nodeVars
<1>6. ASSUME NEW p \in Publications, NEW t \in Peers, NEW n \in 1..MaxAttempts,
             Refuse(p, t, n) \/ Install(p, t, n) \/ Warmed(p, t, n)
      PROVE  UNCHANGED <<saved, file, snap, pc>>
  BY <1>6 DEF Refuse, Install, Warmed, nodeVars
<1>7. ASSUME NEW p \in Publications, NEW t \in Peers, NEW n \in 1..MaxAttempts,
             HandlerFails(p, t, n) \/ Replicate(p, t, n)
      PROVE  UNCHANGED <<saved, file, snap, pc>>
  BY <1>7 DEF HandlerFails, Replicate, nodeVars
<1> QED
  BY <1>1, <1>2, <1>3, <1>4, <1>5, <1>6, <1>7 DEF Next, Publish, Handle, Quiet

\* Every step preserves LoneInv.
LEMMA StepLone == IInv /\ [Next]_vars => LoneInv'
<1> SUFFICES ASSUME IInv, [Next]_vars PROVE LoneInv'
  OBVIOUS
<1> USE DeliveryAssumption DEF IInv
<1>1. ASSUME RouteChange PROVE LoneInv'
  BY <1>1 DEF RouteChange, LoneInv, nodeVars, netVars, TypeOK, StampInv, Busy, Peers, Stamped
<1>2. ASSUME Tick PROVE LoneInv'
  BY <1>2 DEF Tick, LoneInv, nodeVars, netVars, TypeOK, StampInv, Busy, Peers, Stamped
<1>3. ASSUME NEW p \in Publications, StartPublish(p) PROVE LoneInv'
  <2>1. \A h \in warming \cup saving : snap'[h[1]] = snap[h[1]]
    BY <1>3 DEF StartPublish, StampInv, Stamped, TypeOK
  <2>2. QED
    BY <1>3, <2>1 DEF StartPublish, LoneInv, Busy, nodeVars
<1>4. ASSUME NEW p \in Publications, NEW T \in SUBSET Nodes, Stamp(p, T) PROVE LoneInv'
  <2>1. \A h \in warming \cup saving : snap'[h[1]] = snap[h[1]]
    BY <1>4 DEF Stamp, StampInv, Stamped, TypeOK
  <2>2. QED
    BY <1>4, <2>1 DEF Stamp, LoneInv, Busy, nodeVars
<1>5. ASSUME NEW p \in Publications, NoTargets(p) PROVE LoneInv'
  BY <1>5 DEF NoTargets, LoneInv, nodeVars, netVars, TypeOK, StampInv, Busy, Peers, Stamped
<1>6. ASSUME NEW p \in Publications, Record(p) PROVE LoneInv'
  BY <1>6 DEF Record, LoneInv, nodeVars, TypeOK, StampInv, Busy, Peers, Stamped
<1>7. ASSUME NEW p \in Publications, Report(p) PROVE LoneInv'
  BY <1>7 DEF Report, LoneInv, nodeVars, netVars, TypeOK, StampInv, Busy, Peers, Stamped
<1>8. ASSUME NEW p \in Publications, NEW t \in Peers, Send(p, t) PROVE LoneInv'
  BY <1>8 DEF Send, LoneInv, nodeVars, TypeOK, StampInv, Busy, Peers, Stamped
<1>9. ASSUME NEW p \in Publications, NEW t \in Peers, Timeout(p, t) PROVE LoneInv'
  BY <1>9 DEF Timeout, LoneInv, nodeVars, TypeOK, StampInv, Busy, Peers, Stamped
<1>10. ASSUME NEW p \in Publications, NEW t \in Peers, NEW n \in 1..MaxAttempts, Refuse(p, t, n) PROVE LoneInv'
  BY <1>10 DEF Refuse, LoneInv, nodeVars, TypeOK, StampInv, Busy, Peers, Stamped
<1>11. ASSUME NEW p \in Publications, NEW t \in Peers, NEW n \in 1..MaxAttempts, Install(p, t, n) PROVE LoneInv'
  <2>1. SUFFICES ASSUME NEW u \in Nodes, u \notin disturbed'
        PROVE  /\ \A h, g \in (warming \cup saving)' : h[2] = u /\ g[2] = u => h = g
               /\ \A h \in warming' : h[2] = u => h \notin saving'
               /\ \A h \in (warming \cup saving)' : h[2] = u => memory'[u] = snap'[h[1]]
               /\ ~Busy(u)' => memory'[u] = file'[u]
    BY DEF LoneInv
  <2>2. CASE u = t
    <3>1. \A h \in warming \cup saving : h[2] # t
      BY <1>11, <2>1, <2>2 DEF Install, Busy
    <3>2. memory'[t] = snap[p]
      BY <1>11 DEF Install, TypeOK
    <3>3. Busy(t)'
      BY <1>11 DEF Install, Busy
    <3>4. QED
      BY <1>11, <2>2, <3>1, <3>2, <3>3 DEF Install
  <2>3. CASE u # t
    <3>1. memory'[u] = memory[u] /\ (Busy(u)' <=> Busy(u))
      BY <1>11, <2>3 DEF Install, TypeOK, Busy
    <3>2. u \notin disturbed
      BY <1>11, <2>1 DEF Install
    <3>3. QED
      BY <1>11, <2>3, <3>1, <3>2 DEF Install, LoneInv
  <2>4. QED
    BY <2>2, <2>3
<1>12. ASSUME NEW p \in Publications, NEW t \in Peers, NEW n \in 1..MaxAttempts, Warmed(p, t, n) PROVE LoneInv'
  <2>1. (warming \cup saving)' = warming \cup saving
    BY <1>12 DEF Warmed
  <2>2. \A u \in Nodes : Busy(u)' <=> Busy(u)
    BY <2>1 DEF Busy
  <2>3. \A u \in Nodes : u \notin disturbed =>
          \A h \in warming' : h[2] = u => h \notin saving'
    BY <1>12 DEF Warmed, LoneInv
  <2>4. QED
    BY <1>12, <2>1, <2>2, <2>3 DEF Warmed, LoneInv
<1>13. ASSUME NEW p \in Publications, NEW t \in Peers, NEW n \in 1..MaxAttempts, HandlerFails(p, t, n) PROVE LoneInv'
  BY <1>13 DEF HandlerFails, LoneInv, TypeOK, StampInv, Busy, Peers, Stamped
<1>14. ASSUME NEW p \in Publications, NEW t \in Peers, NEW n \in 1..MaxAttempts, Save(p, t, n) PROVE LoneInv'
  BY <1>14 DEF Save, LoneInv, TypeOK, StampInv, Busy, Peers, Stamped
<1>15. ASSUME NEW t \in Nodes, Restart(t) PROVE LoneInv'
  BY <1>15 DEF Restart, LoneInv, netVars, TypeOK, StampInv, Busy, Peers, Stamped
<1>16. ASSUME NEW p \in Publications, NEW t \in Peers, NEW n \in 1..MaxAttempts, Replicate(p, t, n) PROVE LoneInv'
  BY <1>16 DEF Replicate, LoneInv, nodeVars, TypeOK, StampInv, Busy, Peers, Stamped
<1>17. ASSUME NEW r \in Replicas, ReplicaRestart(r) PROVE LoneInv'
  BY <1>17 DEF ReplicaRestart, LoneInv, nodeVars, netVars, TypeOK, StampInv, Busy, Peers, Stamped
<1>18. ASSUME UNCHANGED vars PROVE LoneInv'
  BY <1>18 DEF vars, nodeVars, netVars, LoneInv, TypeOK, StampInv, Busy, Peers, Stamped
<1>19. QED
  BY <1>1, <1>2, <1>3, <1>4, <1>5, <1>6, <1>7, <1>8, <1>9, <1>10, <1>11, <1>12, <1>13, <1>14, <1>15, <1>16, <1>17, <1>18 DEF Next, Publish, Handle, Quiet

\* Every step preserves ConfirmedMeansHeld.
LEMMA StepConfirmed == IInv /\ [Next]_vars => ConfirmedMeansHeld'
<1> SUFFICES ASSUME IInv, [Next]_vars PROVE ConfirmedMeansHeld'
  OBVIOUS
<1> USE DeliveryAssumption DEF IInv
<1>1. ASSUME RouteChange PROVE ConfirmedMeansHeld'
  BY <1>1 DEF RouteChange, ConfirmedMeansHeld, nodeVars, netVars, TypeOK, StampInv, Peers, Stamped
<1>2. ASSUME Tick PROVE ConfirmedMeansHeld'
  BY <1>2 DEF Tick, ConfirmedMeansHeld, nodeVars, netVars, TypeOK, StampInv, Peers, Stamped
<1>3. ASSUME NEW p \in Publications, StartPublish(p) PROVE ConfirmedMeansHeld'
  BY <1>3 DEF StartPublish, ConfirmedMeansHeld, nodeVars, netVars, TypeOK, StampInv, Peers, Stamped
<1>4. ASSUME NEW p \in Publications, NEW T \in SUBSET Nodes, Stamp(p, T) PROVE ConfirmedMeansHeld'
  BY <1>4 DEF Stamp, ConfirmedMeansHeld, nodeVars, TypeOK, StampInv, Peers, Stamped
<1>5. ASSUME NEW p \in Publications, NoTargets(p) PROVE ConfirmedMeansHeld'
  BY <1>5 DEF NoTargets, ConfirmedMeansHeld, nodeVars, netVars, TypeOK, StampInv, Peers, Stamped
<1>6. ASSUME NEW p \in Publications, Record(p) PROVE ConfirmedMeansHeld'
  BY <1>6 DEF Record, ConfirmedMeansHeld, nodeVars, TypeOK, StampInv, Peers, Stamped
<1>7. ASSUME NEW p \in Publications, Report(p) PROVE ConfirmedMeansHeld'
  BY <1>7 DEF Report, ConfirmedMeansHeld, nodeVars, netVars, TypeOK, StampInv, Peers, Stamped
<1>8. ASSUME NEW p \in Publications, NEW t \in Peers, Send(p, t) PROVE ConfirmedMeansHeld'
  BY <1>8 DEF Send, ConfirmedMeansHeld, nodeVars, TypeOK, StampInv, Peers, Stamped
<1>9. ASSUME NEW p \in Publications, NEW t \in Peers, Timeout(p, t) PROVE ConfirmedMeansHeld'
  BY <1>9 DEF Timeout, ConfirmedMeansHeld, nodeVars, TypeOK, StampInv, Peers, Stamped
<1>10. ASSUME NEW p \in Publications, NEW t \in Peers, NEW n \in 1..MaxAttempts, Refuse(p, t, n) PROVE ConfirmedMeansHeld'
  BY <1>10 DEF Refuse, ConfirmedMeansHeld, nodeVars, TypeOK, StampInv, Peers, Stamped
<1>11. ASSUME NEW p \in Publications, NEW t \in Peers, NEW n \in 1..MaxAttempts, Install(p, t, n) PROVE ConfirmedMeansHeld'
  BY <1>11 DEF Install, ConfirmedMeansHeld, TypeOK, StampInv, Peers, Stamped
<1>12. ASSUME NEW p \in Publications, NEW t \in Peers, NEW n \in 1..MaxAttempts, Warmed(p, t, n) PROVE ConfirmedMeansHeld'
  BY <1>12 DEF Warmed, ConfirmedMeansHeld, netVars, TypeOK, StampInv, Peers, Stamped
<1>13. ASSUME NEW p \in Publications, NEW t \in Peers, NEW n \in 1..MaxAttempts, HandlerFails(p, t, n) PROVE ConfirmedMeansHeld'
  BY <1>13 DEF HandlerFails, ConfirmedMeansHeld, TypeOK, StampInv, Peers, Stamped
<1>14. ASSUME NEW p \in Publications, NEW t \in Peers, NEW n \in 1..MaxAttempts, Save(p, t, n) PROVE ConfirmedMeansHeld'
  BY <1>14 DEF Save, ConfirmedMeansHeld, TypeOK, StampInv, Peers, Stamped
<1>15. ASSUME NEW t \in Nodes, Restart(t) PROVE ConfirmedMeansHeld'
  BY <1>15 DEF Restart, ConfirmedMeansHeld, netVars, TypeOK, StampInv, Peers, Stamped
<1>16. ASSUME NEW p \in Publications, NEW t \in Peers, NEW n \in 1..MaxAttempts, Replicate(p, t, n) PROVE ConfirmedMeansHeld'
  <2>0. p \in Publications /\ snap[p] \in Snapshots /\ snap' = snap
    BY <1>16 DEF Replicate, StampInv
  <2>1. CASE Stale(snap[p], t)
    BY <1>16, <2>1 DEF Replicate, ConfirmedMeansHeld, Older
  <2>2. CASE ~Stale(snap[p], t)
    <3>1. /\ t \in Replicas
          /\ replica' = [replica EXCEPT ![t] = snap[p]]
          /\ confirmed' \subseteq confirmed \cup {<<p, t>>}
      BY <1>16, <2>2 DEF Replicate
    <3>2. replica'[t] = snap[p] /\ snap[p] # None /\ ~Older(snap[p], snap[p])
      <4>1. IdRank[<<snap[p].generatedAt, snap[p].routes>>] \in Int /\ snap[p].generatedAt \in 0..MaxTime
        BY <2>0 DEF Snapshots
      <4>2. QED
        BY <2>0, <3>1, <4>1 DEF TypeOK, Older, None
    <3>3. ASSUME NEW c \in confirmed, c[2] = t PROVE ~Older(snap[p], snap[c[1]])
      <4>1. replica[t] # None /\ ~Older(replica[t], snap[c[1]])
        BY <3>3 DEF ConfirmedMeansHeld
      <4>2. replica[t] \in Snapshots /\ snap[c[1]] \in Snapshots
        BY <3>1, <3>3, <4>1 DEF TypeOK, StampInv
      <4>3. ~Older(snap[p], replica[t])
        BY <2>2, <4>1 DEF Stale
      <4>4. QED
        BY <2>0, <4>1, <4>2, <4>3, FreshnessTransitive
    <3>4. ASSUME NEW c \in confirmed' PROVE replica'[c[2]] # None /\ ~Older(replica'[c[2]], snap[c[1]])
      <4>1. CASE c \in confirmed /\ c[2] = t
        BY <3>2, <3>3, <4>1
      <4>2. CASE c \in confirmed /\ c[2] # t
        <5>1. replica'[c[2]] = replica[c[2]]
          BY <3>1, <4>2 DEF TypeOK
        <5>2. QED
          BY <4>2, <5>1 DEF ConfirmedMeansHeld
      <4>3. CASE c = <<p, t>>
        BY <3>2, <4>3
      <4>4. QED
        BY <3>1, <3>4, <4>1, <4>2, <4>3
    <3>5. QED
      BY <2>0, <3>4 DEF ConfirmedMeansHeld, Older
  <2>3. QED
    BY <2>1, <2>2
<1>17. ASSUME NEW r \in Replicas, ReplicaRestart(r) PROVE ConfirmedMeansHeld'
  BY <1>17 DEF ReplicaRestart, ConfirmedMeansHeld, nodeVars, netVars, TypeOK, StampInv, Peers, Stamped
<1>18. ASSUME UNCHANGED vars PROVE ConfirmedMeansHeld'
  BY <1>18 DEF vars, nodeVars, netVars, ConfirmedMeansHeld, TypeOK, StampInv, Peers, Stamped, Older
<1>19. QED
  BY <1>1, <1>2, <1>3, <1>4, <1>5, <1>6, <1>7, <1>8, <1>9, <1>10, <1>11, <1>12, <1>13, <1>14, <1>15, <1>16, <1>17, <1>18 DEF Next, Publish, Handle, Quiet

-----------------------------------------------------------------------------
\* The invariant holds initially and every step preserves it.
THEOREM Invariance == Spec => []IInv
<1>1. Init => IInv
  <2> SUFFICES ASSUME Init PROVE IInv
    OBVIOUS
  <2> USE DeliveryAssumption DEF Init
  <2>1. TypeOK
    BY DEF TypeOK, Peers, Settled, Snapshots, None
  <2>2. CallInv /\ StampInv
    BY DEF CallInv, StampInv, Stamped, Peers
  <2>3. SavedInv /\ FileInv /\ LoneInv /\ ConfirmedMeansHeld
    BY DEF SavedInv, FileInv, LoneInv, ConfirmedMeansHeld, PublishedSaved, Busy, Peers
  <2>4. QED
    BY <2>1, <2>2, <2>3 DEF IInv
<1>2. IInv /\ [Next]_vars => IInv'
  BY StepType, StepCall, StepStamp, StepSaved, StepFile, StepLone, StepConfirmed DEF IInv
<1>3. QED
  BY <1>1, <1>2, PTL DEF Spec

\* The state keeps its shape, and no call makes more than MaxAttempts attempts.
THEOREM TypeCorrect == Spec => []TypeOK
<1>1. IInv => TypeOK
  BY DEF IInv
<1>2. QED
  BY <1>1, Invariance, PTL

\* A publication recorded as ok is on the disk of every node it targeted.
THEOREM PublishedIsPersisted == Spec => []PublishedMeansPersisted
<1>1. ASSUME IInv PROVE PublishedMeansPersisted
  <2>1. ASSUME NEW p \in published, NEW t \in targets[p]
        PROVE  <<p, t>> \in saved /\ \E q \in Publications : <<q, t>> \in saved /\ file[t] = snap[q]
    <3>1. p \in Publications /\ t \in Nodes
      BY <1>1, <2>1 DEF IInv, TypeOK
    <3>2. <<p, t>> \in saved
      BY <1>1, <2>1 DEF IInv, SavedInv, PublishedSaved
    <3> QED
      BY <1>1, <3>1, <3>2 DEF IInv, FileInv
  <2> QED
    BY <2>1 DEF PublishedMeansPersisted
<1>2. QED
  BY <1>1, Invariance, PTL

\* A replica reported consistent never falls behind that snapshot while it runs.
THEOREM ConfirmedIsHeld == Spec => []ConfirmedMeansHeld
<1>1. IInv => ConfirmedMeansHeld
  BY DEF IInv
<1>2. QED
  BY <1>1, Invariance, PTL

\* A node whose PUTs never overlapped and never failed serves, when idle, what
\* it would restore after a crash.
THEOREM RestoresWhatItServes == Spec => []ServesWhatItWouldRestore
<1>1. IInv => ServesWhatItWouldRestore
  BY DEF IInv, LoneInv, ServesWhatItWouldRestore
<1>2. QED
  BY <1>1, Invariance, PTL
=============================================================================
