--------------------------- MODULE Searches_proofs ---------------------------
(***************************************************************************)
(* Searches, for any number of commands, activations and subjects: types,  *)
(* one answer and one creation, the connection, the pending search, and    *)
(* the limit.                                                              *)
(***************************************************************************)
EXTENDS Searches, FiniteSetTheorems, TLAPS

-----------------------------------------------------------------------------
(* The inductive invariant. *)

CommandPcs == {"idle", "delete job", "credentials", "save", "count", "look", "resolve", "begin",
               "insert", "commit", "explain", "submit"}
ActivationPcs == {"idle", "prepare", "read", "resolve", "begin", "claim", "insert", "commit",
                  "explain", "clear"}

\* Where a handler has a subject, and where credentials have been seen.
Named == Pcs \ {"idle", "submit", "prepare", "read"}
Signed == Pcs \ {"idle", "delete job", "credentials", "save", "submit"}

\* A frame is where its code can be, and one in use belongs to a handler that runs.
Frames ==
    /\ \A i \in Interactions : /\ frame[i].pc \in CommandPcs
                               /\ frame[i].pc # "idle" => dispatched[i] = "running"
    /\ \A a \in Activations : frame[a].pc \in ActivationPcs
    /\ \A h \in Handlers : /\ frame[h].pc \in Named => frame[h].subject \in Subjects
                           /\ frame[h].pc \in Signed => credentials

\* An interaction is answered exactly when its pipeline is over.
Answers == \A i \in Interactions : posts[i] = IF pipeline[i] = "over" THEN 1 ELSE 0

\* What an activation read is the row with its version; in its transaction, past the
\* claim, that row is still the one that is there.
Past(a) == frame[a].pc \in {"resolve", "begin", "claim", "insert", "commit", "explain", "clear"}
Claimed(a) == frame[a].pc \in {"insert", "commit"}
Versions ==
    /\ pending # NoRow => pending.version = clock
    /\ \A a \in Activations :
           /\ Past(a) => frame[a].version <= clock
           /\ Past(a) /\ SameRow(a) => pending.subject = Subject(a)
           /\ Claimed(a) => SameRow(a)

IInv == TypeOK /\ Frames /\ Answers /\ ConnectionReturned /\ Versions /\ CreatedOnce

-----------------------------------------------------------------------------
(* Steps. *)

USE DEF Handlers

LEMMA Begins == Init => IInv
<1> SUFFICES ASSUME Init PROVE IInv
  OBVIOUS
<1>1. TypeOK
  BY DEF Init, InteractionInit, Idle, TypeOK, InteractionTypeOK, Pcs
<1>2. \A h \in Handlers : frame[h].pc = "idle"
  BY DEF Init, Idle
<1>3. Frames /\ Answers
  BY <1>2 DEF Init, InteractionInit, CommandPcs, ActivationPcs, Named, Signed, Pcs, Frames, Answers
<1>4. ConnectionReturned /\ CreatedOnce
  BY <1>2, NobodyAssumption DEF Init, ConnectionReturned, InTransaction, CreatedOnce, At
<1>5. Versions
  BY <1>2 DEF Init, Versions, Past, Claimed
<1> QED
  BY <1>1, <1>3, <1>4, <1>5 DEF IInv

\* What the pipeline does without the handler.
LEMMA PipelineStep ==
    ASSUME IInv, NEW i \in Interactions, Pipeline(i), UNCHANGED <<dataVars, conn, frame>>
    PROVE  IInv'
<1>1. InteractionTypeOK' /\ Answers'
  BY DEF IInv, TypeOK, InteractionTypeOK, Answers, Pipeline, Send, TakeResult, TakeDeadline, RaceEnds, RaceOver,
         Respond, Responded
<1>2. \A j \in Interactions : dispatched[j] = "running" => dispatched'[j] = "running"
  BY DEF IInv, TypeOK, InteractionTypeOK, Pipeline, Send, TakeResult, TakeDeadline, RaceEnds, Respond
<1>3. TypeOK' /\ Frames'
  BY <1>1, <1>2 DEF IInv, TypeOK, Frames, dataVars
<1> QED
  BY <1>1, <1>3 DEF IInv, ConnectionReturned, InTransaction, Versions, Past, Claimed, SameRow, CreatedOnce, At,
                    Subject, dataVars

\* A handler h moves, or is through, to the frame r; it holds the connection or not.
\* What else may change is the data.
Moves(h, r) ==
    /\ frame' = [frame EXCEPT ![h] = r]
    /\ \/ UNCHANGED interactionVars /\ (h \in Interactions => dispatched[h] = "running" \/ r.pc = "idle")
       \/ h \in Interactions /\ r.pc = "idle" /\ Finish(h)
       \/ h \in Interactions /\ Receive(h)

Fits(h, r) ==
    /\ r \in [pc : Pcs, subject : Subjects \cup {NoRow}, version : Nat]
    /\ h \in Interactions => r.pc \in CommandPcs
    /\ h \in Activations => r.pc \in ActivationPcs
    /\ r.pc \in Named => r.subject \in Subjects
    /\ r.pc \in Signed => credentials'

\* Types and frames follow when the frame suits its handler.
LEMMA MoveKeepsFrames ==
    ASSUME IInv, NEW h \in Handlers, NEW r, Moves(h, r), Fits(h, r),
           credentials' \in BOOLEAN, credentials => credentials', ~credentials' => jobs' = {},
           pending' \in [subject : Subjects, version : Nat] \cup {NoRow}, clock' \in Nat,
           jobs' \subseteq Subjects, conn' \in Handlers \cup {NoOne}
    PROVE  TypeOK' /\ Frames' /\ Answers'
<1>1. InteractionTypeOK' /\ Answers'
  BY DEF IInv, TypeOK, InteractionTypeOK, Answers, Moves, Finish, Receive, interactionVars
<1>2. frame' \in [Handlers -> [pc : Pcs, subject : Subjects \cup {NoRow}, version : Nat]]
  BY DEF IInv, TypeOK, Moves, Fits
<1>3. TypeOK'
  BY <1>1, <1>2 DEF TypeOK
<1>4. \A g \in Handlers : frame'[g] = IF g = h THEN r ELSE frame[g]
  BY DEF IInv, TypeOK, Moves
<1>5. ASSUME NEW i \in Interactions PROVE frame'[i].pc \in CommandPcs /\ (frame'[i].pc # "idle" => dispatched'[i] = "running")
  BY <1>4 DEF IInv, TypeOK, InteractionTypeOK, Frames, Moves, Fits, Finish, Receive, interactionVars
<1>6. ASSUME NEW a \in Activations PROVE frame'[a].pc \in ActivationPcs
  BY <1>4 DEF IInv, Frames, Fits
<1>7. ASSUME NEW g \in Handlers
      PROVE  (frame'[g].pc \in Named => frame'[g].subject \in Subjects) /\ (frame'[g].pc \in Signed => credentials')
  BY <1>4 DEF IInv, Frames, Fits
<1>8. Frames'
  BY <1>5, <1>6, <1>7 DEF Frames
<1> QED
  BY <1>1, <1>3, <1>8

\* The rest, for a step outside of transactions that leaves the pending row alone.
LEMMA MoveKeepsRest ==
    ASSUME IInv, NEW h \in Handlers, NEW r, frame' = [frame EXCEPT ![h] = r], UNCHANGED <<pending, clock, conn>>,
           jobs' \subseteq jobs, ~InTransaction(h), r.pc \notin {"claim", "insert", "commit"},
           h \in Activations /\ r.pc \in {"resolve", "begin", "explain", "clear"} =>
               /\ r.version <= clock
               /\ pending # NoRow /\ pending.version = r.version => pending.subject = r.subject
    PROVE  ConnectionReturned' /\ Versions' /\ CreatedOnce'
<1>1. \A g \in Handlers : frame'[g] = IF g = h THEN r ELSE frame[g]
  BY DEF IInv, TypeOK
<1>2. ConnectionReturned'
  BY <1>1 DEF IInv, ConnectionReturned, InTransaction
<1>3. CreatedOnce'
  BY <1>1 DEF IInv, CreatedOnce, At, Subject
<1>4. ASSUME NEW a \in Activations
      PROVE  /\ Past(a)' => frame'[a].version <= clock'
             /\ Past(a)' /\ SameRow(a)' => pending'.subject = Subject(a)'
             /\ Claimed(a)' => SameRow(a)'
  BY <1>1 DEF IInv, Versions, Past, Claimed, SameRow, Subject, InTransaction
<1> QED
  BY <1>2, <1>3, <1>4 DEF IInv, Versions

\* The two together, for the steps that read, ask and fail.
LEMMA QuietMove ==
    ASSUME IInv, NEW h \in Handlers, NEW r, Moves(h, r), Fits(h, r),
           UNCHANGED <<credentials, pending, clock, conn>>, jobs' \subseteq jobs,
           ~InTransaction(h), r.pc \notin {"claim", "insert", "commit"},
           h \in Activations /\ r.pc \in {"resolve", "begin", "explain", "clear"} =>
               /\ r.version <= clock
               /\ pending # NoRow /\ pending.version = r.version => pending.subject = r.subject
    PROVE  IInv'
<1>1. TypeOK' /\ Frames' /\ Answers'
  <2>1. ~credentials' => jobs' = {}
    BY DEF IInv, TypeOK
  <2> QED
    BY <2>1, MoveKeepsFrames DEF IInv, TypeOK
<1>2. ConnectionReturned' /\ Versions' /\ CreatedOnce'
  BY MoveKeepsRest DEF Moves
<1> QED
  BY <1>1, <1>2 DEF IInv

\* A handler that is through.
LEMMA DoneMoves ==
    ASSUME NEW h \in Handlers, Done(h)
    PROVE  Moves(h, Idle) /\ Fits(h, Idle)
BY DEF Done, Moves, Fits, Idle, Pcs, CommandPcs, ActivationPcs, Named, Signed

\* A handler that goes on, in the frame it has.
LEMMA GotoMoves ==
    ASSUME IInv, NEW h \in Handlers, NEW pc, Goto(h, pc), Still, frame[h].pc # "idle"
    PROVE  Moves(h, [frame[h] EXCEPT !.pc = pc])
<1>1. h \in Interactions => dispatched[h] = "running"
  BY DEF IInv, Frames
<1>2. frame' = [frame EXCEPT ![h] = [frame[h] EXCEPT !.pc = pc]]
  BY DEF Goto, IInv, TypeOK
<1> QED
  BY <1>1, <1>2 DEF Moves, Still

\* It stays in its types, if it may be there.
LEMMA GotoFits ==
    ASSUME IInv, NEW h \in Handlers, NEW pc \in Pcs, frame[h].pc \in Named, UNCHANGED credentials,
           h \in Interactions => pc \in CommandPcs, h \in Activations => pc \in ActivationPcs,
           pc \in Signed => credentials
    PROVE  Fits(h, [frame[h] EXCEPT !.pc = pc])
BY DEF IInv, TypeOK, Frames, Fits

LEMMA QuietDone ==
    ASSUME IInv, NEW h \in Handlers, Done(h), UNCHANGED <<credentials, pending, clock, conn>>, jobs' \subseteq jobs,
           ~InTransaction(h)
    PROVE  IInv'
<1>1. Moves(h, Idle) /\ Fits(h, Idle)
  BY DoneMoves
<1> QED
  BY <1>1, QuietMove DEF Idle

\* What an activation knows of the pending row goes with it.
LEMMA QuietGoto ==
    ASSUME IInv, NEW h \in Handlers, NEW pc \in Pcs, Goto(h, pc), Still, UNCHANGED <<dataVars, conn>>,
           frame[h].pc \in Named, ~InTransaction(h), pc \notin {"claim", "insert", "commit"},
           h \in Interactions => pc \in CommandPcs, h \in Activations => pc \in ActivationPcs /\ Past(h),
           pc \in Signed => credentials
    PROVE  IInv'
<1> DEFINE r == [frame[h] EXCEPT !.pc = pc]
<1>1. Moves(h, r)
  BY GotoMoves DEF Named
<1>2. Fits(h, r)
  BY GotoFits DEF dataVars
<1>3. h \in Activations => /\ r.version <= clock
                           /\ pending # NoRow /\ pending.version = r.version => pending.subject = r.subject
  BY DEF IInv, TypeOK, Versions, SameRow, Subject
<1>4. r.pc = pc
  BY DEF IInv, TypeOK
<1> QED
  BY <1>1, <1>2, <1>3, <1>4, QuietMove DEF dataVars

LEMMA CommandsKeep ==
    ASSUME IInv, NEW i \in Interactions,
           \/ SubmitForm(i) \/ DeleteJob(i) \/ CountCredentials(i) \/ CountJobs(i) \/ FindExisting(i)
           \/ \E s \in Subjects : Buscar(i, s) \/ Detener(i, s)
    PROVE  IInv'
<1>1. Receive(i) => frame[i].pc = "idle"
  BY DEF IInv, TypeOK, InteractionTypeOK, Frames, Receive
<1>2. CASE SubmitForm(i)
  <2> DEFINE r == [frame[i] EXCEPT !.pc = "submit"]
  <2>1. Moves(i, r) /\ Fits(i, r) /\ ~InTransaction(i)
    BY <1>1, <1>2, HandlersAssumption DEF SubmitForm, Goto, IInv, TypeOK, Moves, Fits, Pcs, CommandPcs, Named, Signed, InTransaction
  <2>2. r.pc = "submit"
    BY DEF IInv, TypeOK
  <2> QED
    BY <1>2, <2>1, <2>2, QuietMove DEF SubmitForm, dataVars
<1>3. ASSUME NEW s \in Subjects, Buscar(i, s) \/ Detener(i, s) PROVE IInv'
  <2> PICK pc \in {"credentials", "delete job"} : frame' = [frame EXCEPT ![i] = [Idle EXCEPT !.pc = pc, !.subject = s]]
    BY <1>3 DEF Buscar, Detener
  <2> DEFINE r == [Idle EXCEPT !.pc = pc, !.subject = s]
  <2>1. Moves(i, r) /\ Fits(i, r) /\ ~InTransaction(i)
    BY <1>1, <1>3, HandlersAssumption DEF Buscar, Detener, Idle, Moves, Fits, Pcs, CommandPcs, Named, Signed, InTransaction
  <2>2. r.pc \notin {"claim", "insert", "commit", "resolve", "begin", "explain", "clear"}
    BY DEF Idle
  <2> QED
    BY <1>3, <2>1, <2>2, QuietMove DEF Buscar, Detener, dataVars
<1>4. CASE DeleteJob(i)
  BY <1>4, QuietDone DEF DeleteJob, At, InTransaction
<1>5. CASE CountCredentials(i)
  BY <1>5, QuietGoto, HandlersAssumption DEF CountCredentials, HasCredentials, At, InTransaction, Named, Signed, Pcs, CommandPcs
<1>6. CASE CountJobs(i) \/ FindExisting(i)
  <2>1. frame[i].pc \in Named /\ ~InTransaction(i) /\ credentials
    BY <1>6 DEF CountJobs, FindExisting, At, InTransaction, IInv, Frames, Named, Signed, Pcs
  <2>2. \/ Done(i)
        \/ \E pc \in {"look", "resolve"} : Goto(i, pc) /\ Still
    BY <1>6 DEF CountJobs, FindExisting
  <2>3. UNCHANGED <<dataVars, conn>>
    BY <1>6 DEF CountJobs, FindExisting
  <2>4. CASE Done(i)
    BY <2>1, <2>3, <2>4, QuietDone DEF dataVars
  <2>5. ASSUME NEW pc \in {"look", "resolve"}, Goto(i, pc), Still PROVE IInv'
    BY <2>1, <2>3, <2>5, QuietGoto, HandlersAssumption DEF Pcs, CommandPcs
  <2> QED
    BY <2>2, <2>4, <2>5
<1> QED
  BY <1>2, <1>3, <1>4, <1>5, <1>6

\* The steps that both kinds of handlers take outside of a transaction, and those of
\* activations.
LEMMA AsksKeep ==
    ASSUME IInv, NEW h \in Handlers, Resolve(h) \/ Unresolved(h) \/ Explain(h)
    PROVE  IInv'
<1>1. ~InTransaction(h) /\ frame[h].pc \in Named /\ credentials /\ (h \in Activations => Past(h))
  BY DEF Resolve, Unresolved, Explain, At, InTransaction, IInv, Frames, Named, Signed, Pcs, Past
<1>2. UNCHANGED <<dataVars, conn>>
  BY DEF Resolve, Unresolved, Explain
<1>3. CASE Done(h)
  BY <1>1, <1>2, <1>3, QuietDone DEF dataVars
<1>4. CASE Goto(h, "begin") /\ Still
  BY <1>1, <1>2, <1>4, QuietGoto DEF Pcs, CommandPcs, ActivationPcs
<1>5. CASE h \in Activations /\ Goto(h, "clear") /\ Still
  BY <1>1, <1>2, <1>5, QuietGoto, HandlersAssumption DEF Pcs, ActivationPcs
<1> QED
  BY <1>3, <1>4, <1>5 DEF Resolve, Unresolved, Explain

LEMMA ReadsKeep ==
    ASSUME IInv, NEW a \in Activations, Prepare(a) \/ ReadPending(a)
    PROVE  IInv'
<1>1. ~InTransaction(a) /\ credentials /\ UNCHANGED <<dataVars, conn>>
  BY DEF Prepare, ReadPending, At, InTransaction, IInv, Frames, Signed, Pcs
<1>2. CASE Prepare(a)
  <2> DEFINE r == [frame[a] EXCEPT !.pc = "read"]
  <2>1. Moves(a, r)
    BY <1>2, GotoMoves DEF Prepare, At
  <2>2. Fits(a, r)
    BY <1>1, HandlersAssumption DEF IInv, TypeOK, Fits, Pcs, ActivationPcs, Named, dataVars
  <2>3. r.pc = "read"
    BY DEF IInv, TypeOK
  <2> QED
    BY <1>1, <2>1, <2>2, <2>3, QuietMove DEF dataVars
<1>3. CASE ReadPending(a) /\ pending = NoRow
  BY <1>1, <1>3, QuietDone DEF ReadPending, dataVars
<1>4. CASE ReadPending(a) /\ pending # NoRow
  <2> DEFINE r == [pc |-> "resolve", subject |-> pending.subject, version |-> pending.version]
  <2>1. Moves(a, r)
    BY <1>4, HandlersAssumption DEF ReadPending, Moves, Still
  <2>2. Fits(a, r)
    BY <1>1, <1>4, HandlersAssumption DEF IInv, TypeOK, Fits, Pcs, ActivationPcs, dataVars
  <2>3. r.version <= clock
    BY <1>4 DEF IInv, TypeOK, Versions
  <2> QED
    BY <1>1, <2>1, <2>2, <2>3, QuietMove DEF dataVars
<1> QED
  BY <1>2, <1>3, <1>4

\* A step of the handler that has the connection, or takes it while it is free: nobody
\* else is in a transaction. What was read of the pending row stays true of it, or the
\* row is gone, or a later one.
LEMMA AloneKeepsRest ==
    ASSUME IInv, NEW h \in Handlers, NEW r, frame' = [frame EXCEPT ![h] = r],
           conn \in {h, NoOne}, conn' = (IF r.pc \in {"claim", "insert", "commit"} THEN h ELSE NoOne),
           clock' \in Nat, clock <= clock',
           \/ pending' = NoRow
           \/ pending' = pending /\ clock' = clock
           \/ pending'.version > clock /\ pending'.version = clock',
           r.pc = "commit" => r.subject \notin jobs',
           h \in Activations /\ r.pc \in {"resolve", "begin", "claim", "insert", "commit", "explain", "clear"} =>
               /\ r.version <= clock'
               /\ pending' # NoRow /\ pending'.version = r.version => pending'.subject = r.subject,
           h \in Activations /\ r.pc \in {"insert", "commit"} => pending' # NoRow /\ pending'.version = r.version
    PROVE  ConnectionReturned' /\ Versions' /\ CreatedOnce'
<1>1. \A g \in Handlers : frame'[g] = IF g = h THEN r ELSE frame[g]
  BY DEF IInv, TypeOK
<1>2. \A g \in Handlers \ {h} : ~InTransaction(g)
  BY NobodyAssumption DEF IInv, ConnectionReturned
<1>3. ConnectionReturned'
  BY <1>1, <1>2, NobodyAssumption DEF ConnectionReturned, InTransaction
<1>4. CreatedOnce'
  BY <1>1, <1>2 DEF CreatedOnce, At, Subject, InTransaction
<1>5. pending' # NoRow => pending'.version = clock'
  BY DEF IInv, Versions
<1>6. ASSUME NEW a \in Activations
      PROVE  /\ Past(a)' => frame'[a].version <= clock'
             /\ Past(a)' /\ SameRow(a)' => pending'.subject = Subject(a)'
             /\ Claimed(a)' => SameRow(a)'
  <2>1. CASE a = h
    BY <1>1, <2>1 DEF Past, Claimed, SameRow, Subject
  <2>2. CASE a # h
    <3>1. frame'[a] = frame[a] /\ ~Claimed(a)'
      BY <1>1, <1>2, <2>2 DEF Claimed, InTransaction
    <3>2. frame[a].version \in Nat /\ clock \in Nat
      BY DEF IInv, TypeOK
    <3>3. Past(a)' => Past(a) /\ frame[a].version <= clock
      BY <3>1 DEF IInv, Versions, Past
    <3>4. Past(a)' /\ SameRow(a)' => pending' = pending
      BY <3>1, <3>2, <3>3 DEF SameRow
    <3> QED
      BY <3>1, <3>2, <3>3, <3>4 DEF IInv, Versions, SameRow, Subject
  <2> QED
    BY <2>1, <2>2
<1> QED
  BY <1>3, <1>4, <1>5, <1>6 DEF Versions

\* Types and frames of a handler that goes on in the transaction, or leaves it.
LEMMA GotoKeepsFrames ==
    ASSUME IInv, NEW h \in Handlers, NEW pc \in Pcs, Goto(h, pc), Still, UNCHANGED dataVars,
           conn' \in {h, NoOne}, frame[h].pc \in Named,
           h \in Interactions => pc \in CommandPcs, h \in Activations => pc \in ActivationPcs,
           pc \in Signed => credentials
    PROVE  TypeOK' /\ Frames' /\ Answers'
<1> DEFINE r == [frame[h] EXCEPT !.pc = pc]
<1>1. Moves(h, r)
  BY GotoMoves DEF Named
<1>2. Fits(h, r)
  BY GotoFits DEF dataVars
<1>3. ~credentials' => jobs' = {}
  BY DEF IInv, TypeOK, dataVars
<1> QED
  BY <1>1, <1>2, <1>3, MoveKeepsFrames DEF IInv, TypeOK, dataVars

LEMMA BeginKeeps ==
    ASSUME IInv, NEW h \in Handlers, Begin(h)
    PROVE  IInv'
<1> DEFINE pc == IF h \in Activations THEN "claim" ELSE "insert"
           r == [frame[h] EXCEPT !.pc = pc]
<1>1. /\ frame[h].pc = "begin" /\ conn = NoOne /\ conn' = h /\ UNCHANGED dataVars
      /\ frame' = [frame EXCEPT ![h] = r] /\ Goto(h, pc) /\ Still
  BY DEF Begin, At, Free, Goto, IInv, TypeOK
<1>2. r.pc = pc /\ r.version = frame[h].version /\ r.subject = frame[h].subject /\ frame[h].version \in Nat
  BY DEF IInv, TypeOK
<1>3. TypeOK' /\ Frames' /\ Answers'
  <2>1. credentials /\ frame[h].pc \in Named
    BY <1>1 DEF IInv, Frames, Signed, Named, Pcs
  <2>2. pc \in Pcs /\ (h \in Interactions => pc \in CommandPcs) /\ (h \in Activations => pc \in ActivationPcs)
    BY HandlersAssumption DEF Pcs, CommandPcs, ActivationPcs
  <2> QED
    BY <1>1, <2>1, <2>2, GotoKeepsFrames
<1>4. h \in Activations => /\ r.version <= clock
                           /\ pending # NoRow /\ pending.version = r.version => pending.subject = r.subject
  BY <1>1, <1>2 DEF IInv, Versions, Past, SameRow, Subject
<1>5. ConnectionReturned' /\ Versions' /\ CreatedOnce'
  <2>1. clock' \in Nat /\ clock <= clock' /\ pending' = pending /\ clock' = clock
    BY <1>1 DEF dataVars, IInv, TypeOK
  <2>2. r.pc \in {"claim", "insert"} /\ (h \in Activations => r.pc = "claim")
    BY <1>2
  <2> HIDE DEF r
  <2> QED
    BY <1>1, <1>4, <2>1, <2>2, AloneKeepsRest
<1> QED
  BY <1>3, <1>5 DEF IInv

LEMMA InsertKeeps ==
    ASSUME IInv, NEW h \in Handlers, Insert(h) \/ Conflict(h)
    PROVE  IInv'
<1>1. frame[h].pc = "insert" /\ conn = h /\ UNCHANGED dataVars
  BY DEF Insert, Conflict, At, IInv, ConnectionReturned, InTransaction
<1>2. PICK pc \in {"commit", "explain"} :
          /\ Goto(h, pc) /\ Still /\ conn' = IF pc = "commit" THEN h ELSE NoOne
          /\ pc = "commit" => Subject(h) \notin jobs
  BY <1>1 DEF Insert, Conflict, RolledBack, Taken
<1> DEFINE r == [frame[h] EXCEPT !.pc = pc]
<1>3. /\ r.pc = pc /\ r.version = frame[h].version /\ r.subject = frame[h].subject /\ frame[h].version \in Nat
      /\ frame' = [frame EXCEPT ![h] = r]
  BY <1>2 DEF Goto, IInv, TypeOK
<1>4. TypeOK' /\ Frames' /\ Answers'
  <2>1. credentials /\ frame[h].pc \in Named
    BY <1>1 DEF IInv, Frames, Signed, Named, Pcs
  <2>2. pc \in Pcs /\ pc \in CommandPcs /\ pc \in ActivationPcs /\ conn' \in {h, NoOne}
    BY <1>2 DEF Pcs, CommandPcs, ActivationPcs
  <2> QED
    BY <1>1, <1>2, <2>1, <2>2, GotoKeepsFrames
<1>5. h \in Activations => /\ r.version <= clock /\ pending # NoRow /\ pending.version = r.version
                           /\ pending # NoRow /\ pending.version = r.version => pending.subject = r.subject
  BY <1>1, <1>3 DEF IInv, Versions, Past, Claimed, SameRow, Subject
<1>6. ConnectionReturned' /\ Versions' /\ CreatedOnce'
  <2>1. clock' \in Nat /\ clock <= clock' /\ pending' = pending /\ clock' = clock /\ jobs' = jobs
    BY <1>1 DEF dataVars, IInv, TypeOK
  <2>2. r.pc = "commit" => r.subject \notin jobs'
    BY <1>2, <1>3, <2>1 DEF Subject
  <2>3. conn' = IF r.pc \in {"claim", "insert", "commit"} THEN h ELSE NoOne
    BY <1>2, <1>3
  <2> QED
    BY <1>1, <1>3, <1>5, <2>1, <2>2, <2>3, AloneKeepsRest
<1> QED
  BY <1>4, <1>6 DEF IInv

\* A handler that is through with the connection in its hands, or free.
LEMMA DoneKeeps ==
    ASSUME IInv, NEW h \in Handlers, Done(h), conn \in {h, NoOne}, conn' = NoOne, UNCHANGED credentials,
           jobs' \subseteq Subjects, ~credentials => jobs' = {},
           pending' \in [subject : Subjects, version : Nat] \cup {NoRow}, clock' \in Nat, clock <= clock',
           \/ pending' = NoRow
           \/ pending' = pending /\ clock' = clock
           \/ pending'.version > clock /\ pending'.version = clock'
    PROVE  IInv'
<1>1. Moves(h, Idle) /\ Fits(h, Idle)
  BY DoneMoves
<1>2. TypeOK' /\ Frames' /\ Answers'
  BY <1>1, MoveKeepsFrames DEF IInv, TypeOK
<1>3. Idle.pc = "idle" /\ frame' = [frame EXCEPT ![h] = Idle]
  BY <1>1 DEF Idle, Moves
<1>4. ConnectionReturned' /\ Versions' /\ CreatedOnce'
  BY <1>3, AloneKeepsRest
<1> QED
  BY <1>2, <1>4 DEF IInv

LEMMA CommitKeeps ==
    ASSUME IInv, NEW h \in Handlers, Commit(h)
    PROVE  IInv'
<1>1. frame[h].pc = "commit" /\ conn = h /\ conn' = NoOne /\ Done(h) /\ UNCHANGED <<credentials, clock>>
  BY DEF Commit, At, IInv, ConnectionReturned, InTransaction
<1>2. credentials /\ Subject(h) \in Subjects
  BY <1>1 DEF IInv, Frames, Signed, Named, Pcs, Subject
<1>3. jobs' \subseteq Subjects /\ pending' \in {pending, NoRow}
  BY <1>2 DEF Commit, IInv, TypeOK
<1>4. clock' \in Nat /\ clock <= clock' /\ pending' \in [subject : Subjects, version : Nat] \cup {NoRow}
  BY <1>1, <1>3 DEF IInv, TypeOK
<1> QED
  BY <1>1, <1>2, <1>3, <1>4, DoneKeeps

LEMMA AbandonKeeps ==
    ASSUME IInv, NEW h \in Handlers, Abandon(h)
    PROVE  IInv'
<1>1. Done(h) /\ UNCHANGED dataVars
  BY DEF Abandon
<1>2. CASE InTransaction(h)
  <2>1. conn = h /\ conn' = NoOne
    BY <1>2 DEF IInv, ConnectionReturned, Abandon
  <2>2. clock' \in Nat /\ clock <= clock' /\ pending' = pending /\ clock' = clock
    BY <1>1 DEF dataVars, IInv, TypeOK
  <2> QED
    BY <1>1, <2>1, <2>2, DoneKeeps DEF dataVars, IInv, TypeOK
<1>3. CASE ~InTransaction(h)
  BY <1>1, <1>3, QuietDone DEF Abandon, dataVars, IInv, ConnectionReturned
<1> QED
  BY <1>2, <1>3

LEMMA ClaimKeeps ==
    ASSUME IInv, NEW a \in Activations, Claim(a)
    PROVE  IInv'
<1>1. frame[a].pc = "claim" /\ conn = a /\ UNCHANGED dataVars /\ Still
  BY DEF Claim, At, IInv, ConnectionReturned, InTransaction
<1>2. clock' \in Nat /\ clock <= clock' /\ pending' = pending /\ clock' = clock /\ credentials
  <2>1. clock' \in Nat /\ clock <= clock' /\ pending' = pending /\ clock' = clock
    BY <1>1 DEF dataVars, IInv, TypeOK
  <2>2. credentials
    BY <1>1 DEF IInv, Frames, Signed, Pcs
  <2> QED
    BY <2>1, <2>2
<1>3. CASE SameRow(a)
  <2> DEFINE r == [frame[a] EXCEPT !.pc = "insert"]
  <2>1. /\ r.pc = "insert" /\ r.version = frame[a].version /\ r.subject = frame[a].subject
        /\ frame' = [frame EXCEPT ![a] = r] /\ Goto(a, "insert") /\ conn' = a
    BY <1>1, <1>3 DEF Claim, Goto, IInv, TypeOK
  <2>2. TypeOK' /\ Frames' /\ Answers'
    BY <1>1, <1>2, <2>1, GotoKeepsFrames, HandlersAssumption DEF Pcs, ActivationPcs, Named
  <2>3. /\ r.version <= clock /\ pending # NoRow /\ pending.version = r.version
        /\ pending.subject = r.subject
    BY <1>1, <1>3, <2>1 DEF IInv, Versions, Past, SameRow, Subject
  <2>4. ConnectionReturned' /\ Versions' /\ CreatedOnce'
    BY <1>1, <1>2, <2>1, <2>3, AloneKeepsRest
  <2> QED
    BY <2>2, <2>4 DEF IInv
<1>4. CASE ~SameRow(a)
  <2> DEFINE r == [Idle EXCEPT !.pc = "read"]
  <2>1. /\ r.pc = "read" /\ frame' = [frame EXCEPT ![a] = r] /\ conn' = NoOne
    BY <1>1, <1>4 DEF Claim, Idle
  <2>2. Moves(a, r) /\ Fits(a, r)
    BY <1>1, <1>2, <2>1, HandlersAssumption DEF Moves, Still, Fits, Idle, Pcs, ActivationPcs, Named, dataVars
  <2>3. TypeOK' /\ Frames' /\ Answers'
    BY <1>1, <2>1, <2>2, MoveKeepsFrames DEF dataVars, IInv, TypeOK
  <2>4. ConnectionReturned' /\ Versions' /\ CreatedOnce'
    BY <1>1, <1>2, <2>1, AloneKeepsRest
  <2> QED
    BY <2>3, <2>4 DEF IInv
<1> QED
  BY <1>3, <1>4

\* The row of a later /buscar is a later one.
LEMMA SavedLater ==
    ASSUME IInv, NEW h \in Handlers, SavePending(h)
    PROVE  /\ pending' \in [subject : Subjects, version : Nat] /\ pending' # NoRow
           /\ pending'.version > clock /\ clock' = pending'.version /\ clock' \in Nat /\ clock <= clock'
<1>1. frame[h].subject \in Subjects /\ clock \in Nat
  BY DEF SavePending, At, IInv, TypeOK, Frames, Named, Pcs
<1>2. PICK now \in {clock, clock + 1} :
          /\ pending = NoRow => now > clock
          /\ pending' = [subject |-> frame[h].subject, version |-> VersionAfter(now)]
  BY DEF SavePending, Subject
<1>3. VersionAfter(now) \in Nat /\ VersionAfter(now) > clock
  BY <1>1, <1>2 DEF IInv, Versions, VersionAfter
<1> QED
  BY <1>1, <1>2, <1>3, NoRowAssumption DEF SavePending

LEMMA PendingRowKeeps ==
    ASSUME IInv, NEW h \in Handlers,
           (h \in Activations /\ ClearPending(h)) \/ (h \in Interactions /\ SavePending(h))
    PROVE  IInv'
<1>1. conn = NoOne /\ conn' = NoOne /\ Done(h) /\ UNCHANGED <<credentials, jobs>>
  BY DEF ClearPending, SavePending, Free
<1>2. CASE ClearPending(h)
  <2>1. pending' \in {pending, NoRow} /\ clock' = clock
    BY <1>2 DEF ClearPending
  <2>2. clock' \in Nat /\ clock <= clock' /\ pending' \in [subject : Subjects, version : Nat] \cup {NoRow}
    BY <2>1 DEF IInv, TypeOK
  <2> QED
    BY <1>1, <2>1, <2>2, DoneKeeps DEF IInv, TypeOK
<1>3. CASE SavePending(h)
  <2> QED
    BY <1>1, <1>3, SavedLater, DoneKeeps DEF IInv, TypeOK
<1> QED
  BY <1>2, <1>3

\* A form starts an activation, which has read nothing yet.
LEMMA FormKeeps ==
    ASSUME IInv, NEW i \in Interactions, SaveCredentials(i)
    PROVE  IInv'
<1>1. PICK a \in Activations :
          frame[a].pc = "idle" /\ frame' = [frame EXCEPT ![i] = Idle, ![a].pc = "prepare"]
  BY DEF SaveCredentials, At
<1>2. /\ frame[i].pc = "submit" /\ credentials' = TRUE /\ Finish(i)
      /\ pending' = pending /\ clock' = clock /\ jobs' = jobs /\ conn' = conn
  BY DEF SaveCredentials, At
<1>3. \A h \in Handlers : frame'[h] = IF h = i THEN Idle
                                      ELSE IF h = a THEN [frame[a] EXCEPT !.pc = "prepare"] ELSE frame[h]
  BY <1>1, HandlersAssumption DEF IInv, TypeOK
<1>4. frame'[a].pc = "prepare" /\ frame'[i].pc = "idle" /\ a # i
  BY <1>3, HandlersAssumption DEF IInv, TypeOK, Idle
<1>5. InteractionTypeOK' /\ Answers'
  BY <1>2 DEF IInv, TypeOK, InteractionTypeOK, Answers, Finish
<1>6. TypeOK'
  <2>1. frame' \in [Handlers -> [pc : Pcs, subject : Subjects \cup {NoRow}, version : Nat]]
    <3>1. frame' = [h \in Handlers |-> frame'[h]]
      BY <1>1 DEF IInv, TypeOK
    <3>2. Idle \in [pc : Pcs, subject : Subjects \cup {NoRow}, version : Nat]
      BY DEF Idle, Pcs
    <3>3. [frame[a] EXCEPT !.pc = "prepare"] \in [pc : Pcs, subject : Subjects \cup {NoRow}, version : Nat]
      BY DEF IInv, TypeOK, Pcs
    <3>4. \A h \in Handlers : frame'[h] \in [pc : Pcs, subject : Subjects \cup {NoRow}, version : Nat]
      BY <1>3, <3>2, <3>3 DEF IInv, TypeOK
    <3> QED
      BY <3>1, <3>4
  <2> QED
    BY <1>2, <1>5, <2>1 DEF IInv, TypeOK
<1>7. Frames'
  <2>1. ASSUME NEW j \in Interactions
        PROVE  frame'[j].pc \in CommandPcs /\ (frame'[j].pc # "idle" => dispatched'[j] = "running")
    BY <1>2, <1>3, <1>4, HandlersAssumption DEF IInv, TypeOK, InteractionTypeOK, Frames, Finish, CommandPcs
  <2>2. ASSUME NEW b \in Activations PROVE frame'[b].pc \in ActivationPcs
    BY <1>3, <1>4, HandlersAssumption DEF IInv, Frames, ActivationPcs
  <2>3. ASSUME NEW h \in Handlers
        PROVE  (frame'[h].pc \in Named => frame'[h].subject \in Subjects) /\ (frame'[h].pc \in Signed => credentials')
    BY <1>2, <1>3, <1>4 DEF IInv, Frames, Named
  <2> QED
    BY <2>1, <2>2, <2>3 DEF Frames
<1>8. ConnectionReturned' /\ CreatedOnce'
  <2>1. \A h \in Handlers : InTransaction(h)' <=> InTransaction(h)
    BY <1>1, <1>2, <1>3, <1>4 DEF InTransaction
  <2>2. \A h \in Handlers : InTransaction(h) => frame'[h] = frame[h]
    BY <1>1, <1>2, <1>3 DEF InTransaction
  <2> QED
    BY <1>2, <2>1, <2>2 DEF IInv, ConnectionReturned, CreatedOnce, At, Subject, InTransaction
<1>9. Versions'
  <2>1. \A b \in Activations : Past(b)' => frame'[b] = frame[b]
    BY <1>3, <1>4, HandlersAssumption DEF Past
  <2> QED
    BY <1>2, <2>1 DEF IInv, Versions, Past, Claimed, SameRow, Subject
<1> QED
  BY <1>5, <1>6, <1>7, <1>8, <1>9 DEF IInv

LEMMA RestartKeeps ==
    ASSUME IInv, Restart
    PROVE  IInv'
<1>1. \A h \in Handlers : frame'[h] = Idle
  BY DEF Restart
<1>2. TypeOK' /\ Answers'
  BY DEF IInv, TypeOK, InteractionTypeOK, Restart, Answers, Idle, Pcs, dataVars
<1>3. Frames'
  <2>1. \A h \in Handlers : frame'[h].pc = "idle"
    BY <1>1 DEF Idle
  <2>2. "idle" \in CommandPcs /\ "idle" \in ActivationPcs /\ "idle" \notin Named /\ "idle" \notin Signed
    BY DEF CommandPcs, ActivationPcs, Named, Signed
  <2> QED
    BY <2>1, <2>2 DEF Frames
<1>4. ConnectionReturned' /\ CreatedOnce' /\ Versions'
  BY <1>1, NobodyAssumption DEF IInv, Restart, dataVars, ConnectionReturned, InTransaction, CreatedOnce, At, Versions, Past,
     Claimed, Idle
<1> QED
  BY <1>2, <1>3, <1>4 DEF IInv

\* The invariant holds in every state.
LEMMA StepKeeps == IInv /\ [Next]_vars => IInv'
<1> SUFFICES ASSUME IInv, [Next]_vars PROVE IInv'
  OBVIOUS
<1>1. CASE UNCHANGED vars
  BY <1>1 DEF vars, interactionVars, dataVars, IInv, TypeOK, InteractionTypeOK, Frames, Answers, ConnectionReturned, InTransaction,
              Versions, Past, Claimed, SameRow, Subject, CreatedOnce, At
<1>2. ASSUME NEW h \in Handlers, Statement(h) \/ Abandon(h) PROVE IInv'
  BY <1>2, AsksKeep, BeginKeeps, InsertKeeps, CommitKeeps, AbandonKeeps DEF Statement
<1>3. ASSUME NEW i \in Interactions,
             \/ SubmitForm(i) \/ Command(i)
             \/ \E s \in Subjects : Buscar(i, s) \/ Detener(i, s)
             \/ Pipeline(i) /\ UNCHANGED <<dataVars, conn, frame>>
      PROVE  IInv'
  BY <1>2, <1>3, CommandsKeep, PipelineStep, PendingRowKeeps, FormKeeps DEF Command
<1>4. ASSUME NEW a \in Activations, Activation(a) PROVE IInv'
  BY <1>2, <1>4, ReadsKeep, ClaimKeeps, PendingRowKeeps DEF Activation
<1> QED
  BY <1>1, <1>2, <1>3, <1>4, RestartKeeps DEF Next

-----------------------------------------------------------------------------
(* The theorems. *)

\* The inductive invariant holds for any commands, activations and subjects.
THEOREM Invariant == Spec => []IInv
BY Begins, StepKeeps, PTL DEF Spec

\* Every variable keeps its type, and without credentials there are no searches.
THEOREM TypeCorrect == Spec => []TypeOK
BY Invariant, PTL DEF IInv

\* An interaction is answered once, and no transaction creates what is there.
THEOREM AnsweredAndCreatedOnce == Spec => []OnceEach
<1>1. IInv => OnceEach
  BY DEF IInv, TypeOK, InteractionTypeOK, Answers, OnceEach, AnsweredOnce
<1> QED
  BY <1>1, Invariant, PTL

\* Who holds the connection is inside its transaction.
THEOREM Returned == Spec => []ConnectionReturned
BY Invariant, PTL DEF IInv

\* A pending search is replaced, or goes when its own search was created or found.
THEOREM PendingKept == Spec => PendingHonoured
<1> DEFINE Honoured == pending # NoRow /\ pending' = NoRow =>
               \E a \in Activations : /\ frame[a].pc \in {"commit", "clear"} /\ frame'[a] = Idle
                                      /\ Subject(a) = pending.subject
<1>1. IInv /\ [Next]_vars => [Honoured]_vars
  <2> SUFFICES ASSUME IInv, Next, pending # NoRow, pending' = NoRow
               PROVE  \E a \in Activations : /\ frame[a].pc \in {"commit", "clear"} /\ frame'[a] = Idle
                                             /\ Subject(a) = pending.subject
    OBVIOUS
  <2>1. PICK a \in Activations : Commit(a) \/ (ClearPending(a) /\ SameRow(a))
    <3>1. UNCHANGED dataVars => pending' = pending
      BY DEF dataVars
    <3>2. \A h \in Handlers : Statement(h) => pending' = pending \/ (h \in Activations /\ Commit(h))
      BY <3>1 DEF Statement, Resolve, Unresolved, Begin, Insert, Conflict, Commit, Explain
    <3>3. \A i \in Interactions : ~SubmitForm(i) /\ (\A s \in Subjects : ~Buscar(i, s) /\ ~Detener(i, s)) /\ ~(Pipeline(i) /\ UNCHANGED dataVars)
      BY <3>1 DEF SubmitForm, Buscar, Detener
    <3>4. \A i \in Interactions : ~SavePending(i)
      BY SavedLater
    <3>5. \A i \in Interactions : Command(i) => Statement(i)
      BY <3>1, <3>4 DEF Command, DeleteJob, CountCredentials, CountJobs, FindExisting, SaveCredentials
    <3>6. \A a \in Activations : Activation(a) => Statement(a) \/ (ClearPending(a) /\ SameRow(a))
      BY <3>1 DEF Activation, Prepare, ReadPending, Claim, ClearPending
    <3>7. ~Restart /\ \A h \in Handlers : ~Abandon(h)
      BY <3>1 DEF Restart, Abandon
    <3> QED
      BY <3>2, <3>3, <3>5, <3>6, <3>7, HandlersAssumption DEF Next
  <2>2. frame[a].pc \in {"commit", "clear"} /\ frame'[a] = Idle /\ SameRow(a)
    BY <2>1 DEF Commit, ClearPending, At, Done, IInv, TypeOK, Versions, Claimed
  <2>3. Subject(a) = pending.subject
    BY <2>2 DEF IInv, Versions, Past
  <2> QED
    BY <2>2, <2>3
<1> QED
  BY <1>1, Invariant, PTL DEF Spec, PendingHonoured

-----------------------------------------------------------------------------
(* The limit. *)

\* What is counted are finite sets.
LEMMA Counted ==
    ASSUME TypeOK
    PROVE  /\ IsFiniteSet(jobs) /\ IsFiniteSet(LetThrough)
           /\ Cardinality(jobs) \in Nat /\ Cardinality(LetThrough) \in Nat /\ Cardinality(Interactions) \in Nat
           /\ Cardinality(LetThrough) <= Cardinality(Interactions) /\ Waiting \in 0..1
<1>1. jobs \subseteq Subjects /\ LetThrough \subseteq Interactions
  BY DEF TypeOK, LetThrough
<1> QED
  BY <1>1, FS_Subset, FS_CardinalityType, SubjectsAssumption, HandlersAssumption DEF Waiting

\* A search more is one more at most.
LEMMA OneMore ==
    ASSUME TypeOK, NEW s, jobs' = jobs \cup {s}
    PROVE  Cardinality(jobs') \in Nat /\ Cardinality(jobs') <= Cardinality(jobs) + 1
<1>1. IsFiniteSet(jobs) /\ Cardinality(jobs) \in Nat
  BY Counted
<1>2. IsFiniteSet(jobs') /\ Cardinality(jobs') = IF s \in jobs THEN Cardinality(jobs) ELSE Cardinality(jobs) + 1
  BY <1>1, FS_AddElement
<1>3. Cardinality(jobs') \in Nat
  BY <1>2, FS_CardinalityType
<1> QED
  BY <1>1, <1>2, <1>3

\* A step that adds nothing to what is counted.
LEMMA FewerHold ==
    ASSUME TypeOK, LimitHolds, jobs' \subseteq jobs, LetThrough' \subseteq LetThrough, Waiting' <= Waiting,
           Waiting' \in 0..1
    PROVE  LimitHolds'
<1>1. /\ Cardinality(jobs') <= Cardinality(jobs) /\ Cardinality(jobs') \in Nat
      /\ Cardinality(LetThrough') <= Cardinality(LetThrough) /\ Cardinality(LetThrough') \in Nat
  BY Counted, FS_Subset, FS_CardinalityType
<1> QED
  BY <1>1, Counted, LimitAssumption DEF LimitHolds

\* Who asked while there was room, or nothing, is let in.
LEMMA RoomHolds ==
    ASSUME TypeOK, TypeOK', jobs' = jobs, Cardinality(jobs) < Limit
    PROVE  LimitHolds'
<1>1. /\ Cardinality(LetThrough') <= Cardinality(Interactions) /\ Cardinality(LetThrough') \in Nat
      /\ Waiting' \in 0..1
  <2>1. LetThrough' \subseteq Interactions
    BY DEF LetThrough
  <2> QED
    BY <2>1, FS_Subset, FS_CardinalityType, HandlersAssumption DEF Waiting
<1> QED
  BY <1>1, Counted, LimitAssumption DEF LimitHolds

\* The place of whoever fills one is taken by what is filled.
LEMMA LeavesHold ==
    ASSUME TypeOK, LimitHolds, NEW i \in LetThrough, LetThrough' \subseteq LetThrough \ {i},
           \/ jobs' = jobs /\ Waiting' \in 0..1 /\ Waiting' <= Waiting + 1
           \/ (\E s : jobs' = jobs \cup {s}) /\ Waiting' = Waiting
    PROVE  LimitHolds'
<1>1. /\ Cardinality(LetThrough \ {i}) = Cardinality(LetThrough) - 1 /\ IsFiniteSet(LetThrough \ {i})
      /\ Cardinality(LetThrough') <= Cardinality(LetThrough \ {i}) /\ Cardinality(LetThrough') \in Nat
  <2>1. IsFiniteSet(LetThrough)
    BY Counted
  <2>2. IsFiniteSet(LetThrough \ {i}) /\ Cardinality(LetThrough \ {i}) = Cardinality(LetThrough) - 1
    BY <2>1, FS_RemoveElement
  <2>3. IsFiniteSet(LetThrough') /\ Cardinality(LetThrough') <= Cardinality(LetThrough \ {i})
    BY <2>2, FS_Subset
  <2>4. Cardinality(LetThrough') \in Nat
    BY <2>3, FS_CardinalityType
  <2> QED
    BY <2>2, <2>3, <2>4
<1>2. ASSUME NEW s, jobs' = jobs \cup {s} PROVE Cardinality(jobs') \in Nat /\ Cardinality(jobs') <= Cardinality(jobs) + 1
  BY <1>2, OneMore
<1>3. CASE jobs' = jobs /\ Waiting' \in 0..1 /\ Waiting' <= Waiting + 1
  BY <1>1, <1>3, Counted, LimitAssumption DEF LimitHolds
<1>4. ASSUME NEW s, jobs' = jobs \cup {s}, Waiting' = Waiting PROVE LimitHolds'
  <2>1. Cardinality(jobs') \in Nat /\ Cardinality(jobs') <= Cardinality(jobs) + 1
    BY <1>2, <1>4
  <2> QED
    BY <1>1, <1>4, <2>1, Counted, LimitAssumption DEF LimitHolds
<1> QED
  BY <1>3, <1>4

\* The pending row of an activation that commits is what it fills.
LEMMA ConsumedHolds ==
    ASSUME TypeOK, LimitHolds, NEW s, jobs' = jobs \cup {s}, LetThrough' = LetThrough, Waiting = 1, Waiting' = 0
    PROVE  LimitHolds'
<1>1. Cardinality(jobs') \in Nat /\ Cardinality(jobs') <= Cardinality(jobs) + 1
  BY OneMore
<1> QED
  BY <1>1, Counted, LimitAssumption DEF LimitHolds

Through == {"save", "look", "resolve", "begin", "insert", "commit"}

\* A handler that goes elsewhere takes nobody with it.
LEMMA OneMoves ==
    ASSUME IInv, NEW h \in Handlers, NEW r, frame' = [frame EXCEPT ![h] = r]
    PROVE  /\ r.pc \notin Through \/ h \notin Interactions \/ frame[h].pc \in Through => LetThrough' \subseteq LetThrough
           /\ r.pc \notin Through => LetThrough' \subseteq LetThrough \ {h}
           /\ h \notin Interactions => LetThrough' = LetThrough
<1>1. \A g \in Handlers : frame'[g] = IF g = h THEN r ELSE frame[g]
  BY DEF IInv, TypeOK
<1> QED
  BY <1>1 DEF LetThrough, Through

\* The limit holds after every step.
LEMMA LimitStep == IInv /\ IInv' /\ LimitHolds /\ [Next]_vars => LimitHolds'
<1> SUFFICES ASSUME IInv, IInv', LimitHolds, [Next]_vars PROVE LimitHolds'
  OBVIOUS
<1>1. TypeOK /\ TypeOK' /\ Waiting \in 0..1 /\ Waiting' \in 0..1
  BY DEF IInv, Waiting
<1>2. ASSUME UNCHANGED <<jobs, pending>>, LetThrough' \subseteq LetThrough PROVE LimitHolds'
  <2>1. Waiting' = Waiting
    BY <1>2 DEF Waiting
  <2> QED
    BY <1>1, <1>2, <2>1, FewerHold
<1>3. ASSUME NEW h \in Handlers, Done(h), UNCHANGED <<jobs, pending>> PROVE LimitHolds'
  <2>1. frame' = [frame EXCEPT ![h] = Idle] /\ Idle.pc \notin Through
    BY <1>3 DEF Done, Idle, Through
  <2>2. LetThrough' \subseteq LetThrough
    BY <2>1, OneMoves
  <2> QED
    BY <1>2, <1>3, <2>2
<1>4. ASSUME NEW h \in Handlers, NEW pc, Goto(h, pc), pc \notin Through \/ h \notin Interactions \/ frame[h].pc \in Through,
             UNCHANGED <<jobs, pending>>
      PROVE  LimitHolds'
  <2>1. frame' = [frame EXCEPT ![h] = [frame[h] EXCEPT !.pc = pc]] /\ [frame[h] EXCEPT !.pc = pc].pc = pc
    BY <1>4 DEF Goto, IInv, TypeOK
  <2> QED
    BY <1>2, <1>4, <2>1, OneMoves
<1>5. CASE UNCHANGED vars
  BY <1>2, <1>5 DEF vars, dataVars, LetThrough
<1>6. ASSUME NEW h \in Handlers, Statement(h) \/ Abandon(h) PROVE LimitHolds'
  <2>1. CASE Abandon(h)
    BY <1>3, <2>1 DEF Abandon, dataVars
  <2>2. CASE Resolve(h) \/ Begin(h) \/ Insert(h) \/ Conflict(h)
    <3>1. UNCHANGED <<jobs, pending>> /\ frame[h].pc \in Through /\ \E pc : Goto(h, pc)
      BY <2>2 DEF Resolve, Begin, Insert, Conflict, At, Through, dataVars
    <3> QED
      BY <1>4, <3>1
  <2>3. CASE Unresolved(h) \/ Explain(h)
    <3>1. UNCHANGED <<jobs, pending>> /\ (Done(h) \/ (Goto(h, "clear") /\ "clear" \notin Through))
      BY <2>3 DEF Unresolved, Explain, dataVars, Through
    <3> QED
      BY <1>3, <1>4, <3>1
  <2>4. CASE Commit(h)
    <3>1. frame[h].pc = "commit" /\ frame' = [frame EXCEPT ![h] = Idle] /\ Idle.pc \notin Through
      BY <2>4 DEF Commit, At, Done, Idle, Through
    <3>2. jobs' = jobs \cup {Subject(h)}
      BY <2>4 DEF Commit
    <3>3. CASE h \in Activations
      <4>1. h \notin Interactions /\ Waiting = 1 /\ Waiting' = 0
        BY <2>4, <3>1, <3>3, HandlersAssumption DEF Commit, Waiting, IInv, Versions, Claimed, SameRow
      <4>2. LetThrough' = LetThrough
        BY <3>1, <4>1, OneMoves
      <4> QED
        BY <1>1, <3>2, <4>1, <4>2, ConsumedHolds
    <3>4. CASE h \notin Activations
      <4>1. h \in LetThrough /\ Waiting' = Waiting
        BY <2>4, <3>1, <3>4 DEF Commit, LetThrough, Waiting
      <4>2. LetThrough' \subseteq LetThrough \ {h}
        BY <3>1, OneMoves
      <4> QED
        BY <1>1, <3>2, <4>1, <4>2, LeavesHold
    <3> QED
      BY <3>3, <3>4
  <2> QED
    BY <1>6, <2>1, <2>2, <2>3, <2>4 DEF Statement
<1>7. ASSUME NEW i \in Interactions,
             \/ SubmitForm(i) \/ Command(i)
             \/ \E s \in Subjects : Buscar(i, s) \/ Detener(i, s)
             \/ Pipeline(i) /\ UNCHANGED <<dataVars, conn, frame>>
      PROVE  LimitHolds'
  <2>1. CASE SubmitForm(i)
    BY <1>4, <2>1 DEF SubmitForm, Through, dataVars
  <2>2. ASSUME NEW s \in Subjects, Buscar(i, s) \/ Detener(i, s) PROVE LimitHolds'
    <3>1. UNCHANGED <<jobs, pending>>
      BY <2>2 DEF Buscar, Detener, dataVars
    <3>2. PICK pc \in {"credentials", "delete job"} : frame' = [frame EXCEPT ![i] = [Idle EXCEPT !.pc = pc, !.subject = s]]
      BY <2>2 DEF Buscar, Detener
    <3>3. [Idle EXCEPT !.pc = pc, !.subject = s].pc \notin Through
      BY DEF Idle, Through
    <3> QED
      BY <1>2, <3>1, <3>2, <3>3, OneMoves
  <2>3. CASE Pipeline(i) /\ UNCHANGED <<dataVars, conn, frame>>
    BY <1>2, <2>3 DEF dataVars, LetThrough
  <2>4. CASE DeleteJob(i)
    <3>1. frame' = [frame EXCEPT ![i] = Idle] /\ Idle.pc \notin Through
      BY <2>4 DEF DeleteJob, Done, Idle, Through
    <3>2. LetThrough' \subseteq LetThrough
      BY <3>1, OneMoves
    <3>3. jobs' \subseteq jobs /\ Waiting' = Waiting
      BY <2>4 DEF DeleteJob, Waiting
    <3> QED
      BY <1>1, <3>2, <3>3, FewerHold
  <2>5. CASE CountCredentials(i) \/ CountJobs(i)
    <3>1. UNCHANGED <<jobs, pending>>
      BY <2>5 DEF CountCredentials, CountJobs, dataVars
    <3>2. \/ Done(i)
          \/ Goto(i, "count") /\ "count" \notin Through
          \/ Cardinality(jobs) < Limit
      <4>1. ~credentials => Cardinality(jobs) = 0
        BY FS_EmptySet DEF IInv, TypeOK
      <4> QED
        BY <2>5, <4>1, LimitAssumption DEF CountCredentials, HasCredentials, CountJobs, BelowLimit, Through
    <3> QED
      BY <1>1, <1>3, <1>4, <3>1, <3>2, RoomHolds
  <2>6. CASE FindExisting(i)
    BY <1>3, <1>4, <2>6 DEF FindExisting, At, Through, dataVars
  <2>7. CASE SavePending(i)
    <3>1. frame' = [frame EXCEPT ![i] = Idle] /\ Idle.pc \notin Through
      BY <2>7 DEF SavePending, Done, Idle, Through
    <3>2. i \in LetThrough /\ jobs' = jobs
      BY <2>7 DEF SavePending, At, LetThrough
    <3>3. LetThrough' \subseteq LetThrough \ {i}
      BY <3>1, OneMoves
    <3>4. Waiting' <= Waiting + 1
      BY <1>1
    <3> QED
      BY <1>1, <3>2, <3>3, <3>4, LeavesHold
  <2>8. CASE SaveCredentials(i)
    <3>1. PICK a \in Activations : frame' = [frame EXCEPT ![i] = Idle, ![a].pc = "prepare"]
      BY <2>8 DEF SaveCredentials
    <3>2. LetThrough' \subseteq LetThrough
      BY <3>1, HandlersAssumption DEF LetThrough, IInv, TypeOK, Idle
    <3> QED
      BY <1>2, <2>8, <3>2 DEF SaveCredentials
  <2> QED
    BY <1>6, <1>7, <2>1, <2>2, <2>3, <2>4, <2>5, <2>6, <2>7, <2>8 DEF Command
<1>8. ASSUME NEW a \in Activations, Activation(a) PROVE LimitHolds'
  <2>1. a \notin Interactions
    BY HandlersAssumption
  <2>2. CASE Prepare(a)
    BY <1>4, <2>1, <2>2 DEF Prepare, dataVars
  <2>3. CASE ReadPending(a) \/ Claim(a)
    <3>1. UNCHANGED <<jobs, pending>> /\ \E r : frame' = [frame EXCEPT ![a] = r]
      BY <2>3 DEF ReadPending, Claim, Goto, Done, dataVars, IInv, TypeOK
    <3> QED
      BY <1>2, <2>1, <3>1, OneMoves
  <2>4. CASE ClearPending(a)
    <3>1. LetThrough' = LetThrough /\ jobs' = jobs /\ Waiting' <= Waiting
      <4>1. frame' = [frame EXCEPT ![a] = Idle] /\ jobs' = jobs /\ pending' \in {pending, NoRow}
        BY <2>4 DEF ClearPending, Done
      <4>2. LetThrough' = LetThrough
        BY <2>1, <4>1, OneMoves
      <4> QED
        BY <1>1, <4>1, <4>2 DEF Waiting
    <3> QED
      BY <1>1, <3>1, FewerHold
  <2> QED
    BY <1>6, <1>8, <2>2, <2>3, <2>4 DEF Activation
<1>9. CASE Restart
  <2>1. LetThrough' \subseteq LetThrough
    BY <1>9 DEF Restart, LetThrough, Idle
  <2> QED
    BY <1>2, <1>9, <2>1 DEF Restart, dataVars
<1> QED
  BY <1>5, <1>6, <1>7, <1>8, <1>9 DEF Next

\* The limit is passed by no more than what was under way at once, for any limit and
\* any number of commands at once.
THEOREM LimitKept == Spec => []LimitHolds
<1>1. Init => LimitHolds
  <2> SUFFICES ASSUME Init PROVE LimitHolds
    OBVIOUS
  <2>1. jobs = {} /\ LetThrough = {} /\ Waiting = 0
    BY DEF Init, LetThrough, Waiting, Idle
  <2> QED
    BY <2>1, FS_EmptySet, FS_CardinalityType, HandlersAssumption, LimitAssumption DEF LimitHolds
<1> QED
  BY <1>1, Begins, StepKeeps, LimitStep, Invariant, PTL DEF Spec

=============================================================================
