-------------------------- MODULE FraudModelProofs --------------------------
(* Proofs about FraudModel for every number of training and predicting       *)
(* threads, any number of crashes, failed trainings and failed saves.        *)
EXTENDS FraudModel, FiniteSetTheorems, TLAPS

\* Where the start-up and the trainings on request stand with the process.
ProcessInv ==
  /\ mode = "down" => AtRest /\ model = None
  /\ mode = "starting" => pc[Boot] # "idle"
  /\ pc[Boot] # "idle" => mode = "starting"
  /\ \A t \in Trainers : pc[t] # "idle" => mode = "up"
  /\ \A p \in Predictors : ppc[p] # "idle" => mode = "up"

\* What a thread has at each of its places.
ThreadInv ==
  /\ \A t \in Threads :
       /\ mine[t] # None <=> pc[t] \notin {"idle", "create"}
       /\ target[t] # None <=> pc[t] = "fitting"
       /\ payload[t] # None <=> pc[t] = "dump"
       /\ pc[t] = "dump" => payload[t].version # None /\ payload[t].date # None
       /\ pc[t] \notin {"idle", "create"} => model # None
       /\ pc[t] \in {"version", "save", "dump", "answer"} => date # None
       /\ pc[t] \in {"save", "dump", "answer"} => version # None
  /\ \A p \in Predictors :
       /\ ppc[p] \in {"score", "return"} => scorer[p] # None
       /\ result[p] # None => ppc[p] = "done"
  /\ file \notin {None, Torn} => file.version # None /\ file.date # None

Creating == {t \in Threads : pc[t] = "create"}

\* No more models than the bound, and every one that is anywhere was made.
MadeInv ==
  /\ made + Cardinality(Creating) <= MaxModel
  /\ \A m \in fitted : m <= made
  /\ model # None => model <= made
  /\ \A t \in Threads :
       /\ mine[t] # None => mine[t] <= made
       /\ target[t] # None => target[t] <= made
       /\ payload[t] # None => payload[t].model <= made
  /\ file \notin {None, Torn} => file.model <= made

TypeInv == TypeOK /\ ProcessInv /\ ThreadInv /\ MadeInv

\* A training that is under way alone finds its own model, date and version at
\* each of its places.
OwnInv ==
  \A t \in Threads :
    /\ pc[t] \in {"fit", "fitting", "date", "version", "save", "dump", "answer"} =>
         mine[t] = made /\ model = made
    /\ pc[t] = "fitting" => target[t] = made /\ made \notin fitted
    /\ pc[t] \in {"date", "version", "save", "dump", "answer"} => made \in fitted
    /\ pc[t] \in {"version", "save", "dump", "answer"} => date = made
    /\ pc[t] \in {"save", "dump", "answer"} => version = made
    /\ pc[t] = "dump" =>
         payload[t].model = made /\ payload[t].fitted /\ payload[t].version = made /\ payload[t].date = made
    /\ pc[t] = "answer" /\ file \notin {None, Torn} => file.version = made

\* As long as trainings follow each other.
SoloInv ==
  ~overlap =>
    /\ \A t, u \in Threads : pc[t] # "idle" /\ pc[u] # "idle" => t = u
    /\ clobbered = {}
    /\ OwnInv
    /\ AtRest /\ model \in fitted => version = model

\* What was reported was made.
ReportedInv == ~overlap => \A v \in retrained : v <= made

\* A model this process made is fitted, its fit has raised, or a thread is about
\* to fit it.
FitInv ==
  model # None /\ model > atStart =>
    \/ model \in fitted \cup unfit
    \/ \E t \in Threads : pc[t] = "fit" \/ (pc[t] = "fitting" /\ target[t] = model)

\* A prediction no training was under way with sees one model throughout.
QuietInv ==
  \A p \in quiet :
    /\ AtRest
    /\ ppc[p] \in {"score", "return"} => scorer[p] = model
    /\ ppc[p] = "return" => model \in fitted

-----------------------------------------------------------------------------
(* Types.                                                                    *)

LEMMA TypeInit == Init => TypeInv
  <1> SUFFICES ASSUME Init
               PROVE  TypeInv
    OBVIOUS
  <1>1. TypeOK
    <2>1. 0 \in 0 .. MaxModel /\ 0 \in 0 .. 0
      BY FraudAssumption
    <2>2. quiet \subseteq {p \in Predictors : ppc[p] # "idle"}
      BY DEF Init
    <2>. QED BY <2>1, <2>2 DEF Init, TypeOK
  <1>2. ProcessInv /\ ThreadInv
    BY FraudAssumption DEF Init, ProcessInv, ThreadInv, AtRest, Threads
  <1>3. MadeInv
    <2>1. Creating = {}
      BY DEF Init, Creating
    <2>. QED BY <2>1, FS_EmptySet, FraudAssumption DEF Init, MadeInv
  <1>. QED BY <1>1, <1>2, <1>3 DEF TypeInv

\* The threads that are about to make a model can be counted.
LEMMA CreatingFinite ==
  ASSUME TypeOK
  PROVE  IsFiniteSet(Creating) /\ Cardinality(Creating) \in Nat
  <1>1. IsFiniteSet(Threads)
    BY FraudAssumption, FS_AddElement DEF Threads
  <1>. QED BY <1>1, FS_Subset, FS_CardinalityType DEF Creating

LEMMA CreatingKept ==
  ASSUME TypeOK, NEW t \in Threads, NEW label, label # "create", pc[t] # "create", Step(t, label)
  PROVE  Creating' = Creating
  BY DEF TypeOK, Step, Creating

LEMMA CreatingAdds ==
  ASSUME TypeOK, NEW t \in Threads, pc[t] # "create", Step(t, "create")
  PROVE  Cardinality(Creating') = Cardinality(Creating) + 1
  <1>1. Creating' = Creating \cup {t} /\ t \notin Creating
    BY DEF TypeOK, Step, Creating
  <1>. QED BY <1>1, CreatingFinite, FS_AddElement

LEMMA CreatingRemoves ==
  ASSUME TypeOK, NEW t \in Threads, NEW label, label # "create", pc[t] = "create", Step(t, label)
  PROVE  Cardinality(Creating') = Cardinality(Creating) - 1
  <1>1. Creating' = Creating \ {t} /\ t \in Creating
    BY DEF TypeOK, Step, Creating
  <1>. QED BY <1>1, CreatingFinite, FS_RemoveElement

\* What the file holds, when it is whole.
LEMMA FileType ==
  ASSUME TypeInv, file \notin {None, Torn}
  PROVE  /\ file \in Archive /\ file.model \in Models /\ file.model <= made
         /\ file.version \in Models /\ file.date \in Models
  BY DEF TypeInv, TypeOK, ThreadInv, MadeInv, Archive

LEMMA PayloadType ==
  ASSUME TypeInv, NEW t \in Threads, pc[t] = "dump"
  PROVE  /\ payload[t] \in Archive /\ payload[t].model \in Models /\ payload[t].model <= made
         /\ payload[t].version \in Models /\ payload[t].date \in Models
         /\ payload[t] \notin {None, Torn}
  BY RecordsAssumption DEF TypeInv, TypeOK, ThreadInv, MadeInv, Archive

LEMMA BootLoadTypes ==
  ASSUME TypeInv, BootLoad
  PROVE  TypeInv'
  <1>1. /\ file.model \in Models /\ file.model <= made
        /\ file.version \in Models /\ file.date \in Models
    BY FileType DEF BootLoad
  <1> DEFINE m == file.model
             v == file.version
             d == file.date
  <1>2. /\ mode = "down" /\ mode' = "up" /\ model' = m /\ version' = v /\ date' = d /\ atStart' = made
        /\ fitted' = fitted \cup {m} \/ fitted' = fitted \ {m}
        /\ UNCHANGED <<made, file, trainVars, predictVars, retrained, overlap, quiet, unfit>>
    BY DEF BootLoad
  <1>3. m \in Models /\ v \in Models /\ d \in Models /\ m <= made
    BY <1>1
  <1> HIDE DEF m, v, d
  <1>4. TypeOK'
    BY <1>2, <1>3, FraudAssumption DEF TypeInv, TypeOK, trainVars, predictVars
  <1>5. ProcessInv'
    BY <1>2 DEF TypeInv, ProcessInv, AtRest, trainVars, predictVars, Threads
  <1>6. ThreadInv'
    BY <1>2, <1>3, FraudAssumption DEF TypeInv, ThreadInv, trainVars, predictVars
  <1>7. MadeInv'
    BY <1>2, <1>3 DEF TypeInv, MadeInv, Creating, trainVars
  <1>. QED BY <1>4, <1>5, <1>6, <1>7 DEF TypeInv

LEMMA BootTrainTypes ==
  ASSUME TypeInv, BootTrain
  PROVE  TypeInv'
  <1>1. Boot \in Threads /\ pc[Boot] = "idle" /\ Creating = {}
    BY DEF TypeInv, ProcessInv, BootTrain, AtRest, Creating, Threads
  <1>2. TypeOK'
    BY <1>1, FraudAssumption DEF BootTrain, Step, memory, predictVars, TypeInv, TypeOK
  <1>3. ProcessInv'
    BY <1>1, FraudAssumption
    DEF BootTrain, Step, memory, predictVars, TypeInv, TypeOK, ProcessInv, AtRest,
        Threads
  <1>4. ThreadInv'
    BY <1>1 DEF BootTrain, Step, memory, predictVars, TypeInv, TypeOK, ThreadInv
  <1>5. MadeInv'
    <2>1. Cardinality(Creating') = 1
      BY <1>1, CreatingAdds, FS_EmptySet DEF BootTrain, TypeInv
    <2>. QED BY <2>1, FraudAssumption DEF BootTrain, memory, TypeInv, TypeOK, MadeInv
  <1>. QED BY <1>2, <1>3, <1>4, <1>5 DEF TypeInv

LEMMA CrashTypes ==
  ASSUME TypeInv, Crash
  PROVE  TypeInv'
  <1>1. file' = file \/ file' = None
    BY DEF Crash
  <1>2. retrained' \subseteq Models
    BY DEF Crash, TypeInv, TypeOK
  <1>3. TypeOK'
    BY <1>1, <1>2 DEF Crash, TypeInv, TypeOK
  <1>4. ProcessInv' /\ ThreadInv'
    BY <1>1 DEF Crash, TypeInv, ProcessInv, ThreadInv, AtRest, Threads
  <1>5. MadeInv'
    <2>1. Creating' = {} /\ Cardinality({}) = 0
      BY FS_EmptySet DEF Crash, Creating
    <2>. QED BY <1>1, <2>1, FraudAssumption DEF Crash, TypeInv, TypeOK, MadeInv
  <1>. QED BY <1>3, <1>4, <1>5 DEF TypeInv

LEMMA RetrainTypes ==
  ASSUME TypeInv, NEW t \in Threads, Retrain(t)
  PROVE  TypeInv'
  <1>1. TypeOK'
    BY DEF Retrain, Step, AtRest, memory, predictVars, TypeInv, TypeOK
  <1>2. ProcessInv'
    BY FraudAssumption
    DEF Retrain, Step, memory, predictVars, TypeInv, TypeOK, ProcessInv, Threads
  <1>3. ThreadInv'
    BY DEF Retrain, Step, memory, predictVars, TypeInv, TypeOK, ThreadInv
  <1>4. MadeInv'
    <2>1. Cardinality(Creating') = Cardinality(Creating) + 1 /\ Cardinality(Creating) \in Nat
      BY CreatingAdds, CreatingFinite DEF Retrain, TypeInv
    <2>2. made + Cardinality(Creating) < MaxModel
      BY DEF Retrain, Creating
    <2>. QED BY <2>1, <2>2, FraudAssumption DEF Retrain, memory, TypeInv, TypeOK, MadeInv
  <1>. QED BY <1>1, <1>2, <1>3, <1>4 DEF TypeInv

LEMMA CreateTypes ==
  ASSUME TypeInv, NEW t \in Threads, Create(t)
  PROVE  TypeInv'
  <1>1. /\ Cardinality(Creating) \in Nat /\ Cardinality(Creating') = Cardinality(Creating) - 1
        /\ Cardinality(Creating) # 0
    <2>1. t \in Creating
      BY DEF Create, Creating
    <2>. QED BY <2>1, CreatingFinite, CreatingRemoves, FS_EmptySet DEF Create, TypeInv
  <1>2. made + 1 \in Models /\ made' = made + 1
    BY <1>1, FraudAssumption DEF Create, TypeInv, TypeOK, MadeInv, Models
  <1>3. TypeOK'
    BY <1>2, FraudAssumption
    DEF Create, Step, predictVars, history, TypeInv, TypeOK, Models
  <1>4. ProcessInv'
    BY DEF Create, Step, predictVars, TypeInv, TypeOK, ProcessInv, AtRest, Threads
  <1>5. ThreadInv'
    BY <1>2, FraudAssumption DEF Create, Step, predictVars, TypeInv, TypeOK, ThreadInv
  <1>6. MadeInv'
    <2>1. made + 1 + Cardinality(Creating') <= MaxModel
      BY <1>1, FraudAssumption DEF TypeInv, TypeOK, MadeInv
    <2>2. \A m \in Models : m <= made => m <= made + 1
      BY FraudAssumption DEF TypeInv, TypeOK, Models
    <2>. QED BY <1>2, <2>1, <2>2 DEF Create, TypeInv, TypeOK, MadeInv, Archive
  <1>. QED BY <1>3, <1>4, <1>5, <1>6 DEF TypeInv

LEMMA BeginFitTypes ==
  ASSUME TypeInv, NEW t \in Threads, BeginFit(t)
  PROVE  TypeInv'
  <1>1. TypeOK'
    BY FraudAssumption, RecordsAssumption
    DEF BeginFit, Step, Raise, Fitting, Saved, memory, predictVars, history, TypeInv,
        TypeOK, ThreadInv, ProcessInv, Archive, Threads
  <1>2. ProcessInv'
    BY FraudAssumption
    DEF BeginFit, Step, Raise, Fitting, Saved, memory, predictVars, history, TypeInv,
        TypeOK, ProcessInv, AtRest, Threads
  <1>3. ThreadInv'
    BY FraudAssumption, RecordsAssumption
    DEF BeginFit, Step, Raise, Fitting, Saved, memory, predictVars, history, TypeInv,
        TypeOK, ThreadInv, ProcessInv, Archive
  <1>4. MadeInv'
    <2>1. Creating' = Creating
      BY CreatingKept DEF BeginFit, Raise, TypeInv
    <2>. QED BY <2>1, FraudAssumption
             DEF BeginFit, Step, Raise, Fitting, Saved, memory, predictVars, history,
                 TypeInv, TypeOK, ThreadInv, MadeInv, Archive
  <1>. QED BY <1>1, <1>2, <1>3, <1>4 DEF TypeInv

LEMMA EndFitTypes ==
  ASSUME TypeInv, NEW t \in Threads, EndFit(t)
  PROVE  TypeInv'
  <1>1. TypeOK'
    BY FraudAssumption, RecordsAssumption
    DEF EndFit, Step, Raise, Fitting, Saved, memory, predictVars, history, TypeInv,
        TypeOK, ThreadInv, ProcessInv, Archive, Threads
  <1>2. ProcessInv'
    BY FraudAssumption
    DEF EndFit, Step, Raise, Fitting, Saved, memory, predictVars, history, TypeInv,
        TypeOK, ProcessInv, AtRest, Threads
  <1>3. ThreadInv'
    BY FraudAssumption, RecordsAssumption
    DEF EndFit, Step, Raise, Fitting, Saved, memory, predictVars, history, TypeInv,
        TypeOK, ThreadInv, ProcessInv, Archive
  <1>4. MadeInv'
    <2>1. Creating' = Creating
      BY CreatingKept DEF EndFit, Raise, TypeInv
    <2>. QED BY <2>1, FraudAssumption
             DEF EndFit, Step, Raise, Fitting, Saved, memory, predictVars, history,
                 TypeInv, TypeOK, ThreadInv, MadeInv, Archive
  <1>. QED BY <1>1, <1>2, <1>3, <1>4 DEF TypeInv

LEMMA SetDateTypes ==
  ASSUME TypeInv, NEW t \in Threads, SetDate(t)
  PROVE  TypeInv'
  <1>1. TypeOK'
    BY FraudAssumption, RecordsAssumption
    DEF SetDate, Step, Raise, Fitting, Saved, memory, predictVars, history, TypeInv,
        TypeOK, ThreadInv, ProcessInv, Archive, Threads
  <1>2. ProcessInv'
    BY FraudAssumption
    DEF SetDate, Step, Raise, Fitting, Saved, memory, predictVars, history, TypeInv,
        TypeOK, ProcessInv, AtRest, Threads
  <1>3. ThreadInv'
    BY FraudAssumption, RecordsAssumption
    DEF SetDate, Step, Raise, Fitting, Saved, memory, predictVars, history, TypeInv,
        TypeOK, ThreadInv, ProcessInv, Archive
  <1>4. MadeInv'
    <2>1. Creating' = Creating
      BY CreatingKept DEF SetDate, Raise, TypeInv
    <2>. QED BY <2>1, FraudAssumption
             DEF SetDate, Step, Raise, Fitting, Saved, memory, predictVars, history,
                 TypeInv, TypeOK, ThreadInv, MadeInv, Archive
  <1>. QED BY <1>1, <1>2, <1>3, <1>4 DEF TypeInv

LEMMA SetVersionTypes ==
  ASSUME TypeInv, NEW t \in Threads, SetVersion(t)
  PROVE  TypeInv'
  <1>1. TypeOK'
    BY FraudAssumption, RecordsAssumption
    DEF SetVersion, Step, Raise, Fitting, Saved, memory, predictVars, history, TypeInv,
        TypeOK, ThreadInv, ProcessInv, Archive, Threads
  <1>2. ProcessInv'
    BY FraudAssumption
    DEF SetVersion, Step, Raise, Fitting, Saved, memory, predictVars, history, TypeInv,
        TypeOK, ProcessInv, AtRest, Threads
  <1>3. ThreadInv'
    BY FraudAssumption, RecordsAssumption
    DEF SetVersion, Step, Raise, Fitting, Saved, memory, predictVars, history, TypeInv,
        TypeOK, ThreadInv, ProcessInv, Archive
  <1>4. MadeInv'
    <2>1. Creating' = Creating
      BY CreatingKept DEF SetVersion, Raise, TypeInv
    <2>. QED BY <2>1, FraudAssumption
             DEF SetVersion, Step, Raise, Fitting, Saved, memory, predictVars, history,
                 TypeInv, TypeOK, ThreadInv, MadeInv, Archive
  <1>. QED BY <1>1, <1>2, <1>3, <1>4 DEF TypeInv

LEMMA BeginSaveTypes ==
  ASSUME TypeInv, NEW t \in Threads, BeginSave(t)
  PROVE  TypeInv'
  <1> DEFINE row == [model |-> model, fitted |-> model \in fitted, version |-> version, date |-> date]
  <1>1. /\ row \in Archive /\ row.model = model /\ row.version = version /\ row.date = date
        /\ row # None
    <2>1. model \in Models /\ version \in Models /\ date \in Models
      BY DEF BeginSave, TypeInv, TypeOK, ThreadInv
    <2>2. row \in Archive
      BY <2>1 DEF Archive
    <2>. QED BY <2>2, RecordsAssumption
  <1>2. /\ UNCHANGED <<mode, made, memory, mine, target, predictVars, history>>
        /\ pc[t] = "save" /\ Step(t, "dump")
        /\ payload' = [payload EXCEPT ![t] = row]
        /\ file' = Torn /\ clobbered' \subseteq clobbered \cup Threads
    BY DEF BeginSave
  <1> HIDE DEF row
  <1>3. TypeOK'
    BY <1>1, <1>2 DEF Step, memory, predictVars, history, TypeInv, TypeOK
  <1>4. ProcessInv'
    BY <1>2, FraudAssumption
    DEF Step, memory, predictVars, TypeInv, TypeOK, ProcessInv, AtRest, Threads
  <1>5. ThreadInv'
    BY <1>1, <1>2 DEF Step, memory, predictVars, TypeInv, TypeOK, ThreadInv
  <1>6. MadeInv'
    <2>1. Creating' = Creating
      BY <1>2, CreatingKept DEF TypeInv
    <2>. QED BY <1>1, <1>2, <2>1 DEF memory, TypeInv, TypeOK, MadeInv, ThreadInv
  <1>. QED BY <1>3, <1>4, <1>5, <1>6 DEF TypeInv

LEMMA EndSaveTypes ==
  ASSUME TypeInv, NEW t \in Threads, EndSave(t)
  PROVE  TypeInv'
  <1>0. payload[t] \in Archive /\ payload[t] \notin {None, Torn} /\ payload[t].model <= made
        /\ payload[t].version # None /\ payload[t].date # None
    BY PayloadType, FraudAssumption DEF EndSave
  <1>1. TypeOK'
    BY <1>0, FraudAssumption, RecordsAssumption
    DEF EndSave, Step, Raise, Fitting, Saved, memory, predictVars, history, TypeInv,
        TypeOK, ThreadInv, ProcessInv, Archive, Threads
  <1>2. ProcessInv'
    BY FraudAssumption
    DEF EndSave, Step, Raise, Fitting, Saved, memory, predictVars, history, TypeInv,
        TypeOK, ProcessInv, AtRest, Threads
  <1>3. ThreadInv'
    BY <1>0, FraudAssumption, RecordsAssumption
    DEF EndSave, Step, Raise, Fitting, Saved, memory, predictVars, history, TypeInv,
        TypeOK, ThreadInv, ProcessInv, Archive
  <1>4. MadeInv'
    <2>1. Creating' = Creating
      BY CreatingKept DEF EndSave, Raise, TypeInv
    <2>. QED BY <1>0, <2>1, FraudAssumption
             DEF EndSave, Step, Raise, Fitting, Saved, memory, predictVars, history,
                 TypeInv, TypeOK, ThreadInv, MadeInv, Archive
  <1>. QED BY <1>1, <1>2, <1>3, <1>4 DEF TypeInv

LEMMA AnswerTypes ==
  ASSUME TypeInv, NEW t \in Threads, Answer(t)
  PROVE  TypeInv'
  <1>1. TypeOK'
    BY FraudAssumption, RecordsAssumption
    DEF Answer, Step, Raise, Fitting, Saved, memory, predictVars, history, TypeInv,
        TypeOK, ThreadInv, ProcessInv, Archive, Threads
  <1>2. ProcessInv'
    BY FraudAssumption
    DEF Answer, Step, Raise, Fitting, Saved, memory, predictVars, history, TypeInv,
        TypeOK, ProcessInv, AtRest, Threads
  <1>3. ThreadInv'
    BY FraudAssumption, RecordsAssumption
    DEF Answer, Step, Raise, Fitting, Saved, memory, predictVars, history, TypeInv,
        TypeOK, ThreadInv, ProcessInv, Archive
  <1>4. MadeInv'
    <2>1. Creating' = Creating
      BY CreatingKept DEF Answer, Raise, TypeInv
    <2>. QED BY <2>1, FraudAssumption
             DEF Answer, Step, Raise, Fitting, Saved, memory, predictVars, history,
                 TypeInv, TypeOK, ThreadInv, MadeInv, Archive
  <1>. QED BY <1>1, <1>2, <1>3, <1>4 DEF TypeInv

LEMMA FitFailsTypes ==
  ASSUME TypeInv, NEW t \in Threads, FitFails(t)
  PROVE  TypeInv'
  <1>1. TypeOK'
    BY FraudAssumption, RecordsAssumption
    DEF FitFails, Step, Raise, Fitting, Saved, memory, predictVars, history, TypeInv,
        TypeOK, ThreadInv, ProcessInv, Archive, Threads
  <1>2. ProcessInv'
    BY FraudAssumption
    DEF FitFails, Step, Raise, Fitting, Saved, memory, predictVars, history, TypeInv,
        TypeOK, ProcessInv, AtRest, Threads
  <1>3. ThreadInv'
    BY FraudAssumption, RecordsAssumption
    DEF FitFails, Step, Raise, Fitting, Saved, memory, predictVars, history, TypeInv,
        TypeOK, ThreadInv, ProcessInv, Archive
  <1>4. MadeInv'
    <2>1. Creating' = Creating
      BY CreatingKept DEF FitFails, Raise, TypeInv
    <2>. QED BY <2>1, FraudAssumption
             DEF FitFails, Step, Raise, Fitting, Saved, memory, predictVars, history,
                 TypeInv, TypeOK, ThreadInv, MadeInv, Archive
  <1>. QED BY <1>1, <1>2, <1>3, <1>4 DEF TypeInv

LEMMA SaveFailsTypes ==
  ASSUME TypeInv, NEW t \in Threads, SaveFails(t)
  PROVE  TypeInv'
  <1>0. payload[t] \in Archive /\ payload[t] \notin {None, Torn} /\ payload[t].model <= made
        /\ payload[t].version # None /\ payload[t].date # None
    BY PayloadType, FraudAssumption DEF SaveFails
  <1>1. TypeOK'
    BY <1>0, FraudAssumption, RecordsAssumption
    DEF SaveFails, Step, Raise, Fitting, Saved, memory, predictVars, history, TypeInv,
        TypeOK, ThreadInv, ProcessInv, Archive, Threads
  <1>2. ProcessInv'
    BY FraudAssumption
    DEF SaveFails, Step, Raise, Fitting, Saved, memory, predictVars, history, TypeInv,
        TypeOK, ProcessInv, AtRest, Threads
  <1>3. ThreadInv'
    BY <1>0, FraudAssumption, RecordsAssumption
    DEF SaveFails, Step, Raise, Fitting, Saved, memory, predictVars, history, TypeInv,
        TypeOK, ThreadInv, ProcessInv, Archive
  <1>4. MadeInv'
    <2>1. Creating' = Creating
      BY CreatingKept DEF SaveFails, Raise, TypeInv
    <2>. QED BY <1>0, <2>1, FraudAssumption
             DEF SaveFails, Step, Raise, Fitting, Saved, memory, predictVars, history,
                 TypeInv, TypeOK, ThreadInv, MadeInv, Archive
  <1>. QED BY <1>1, <1>2, <1>3, <1>4 DEF TypeInv

LEMMA PredictTypes ==
  ASSUME TypeInv, NEW p \in Predictors, Predict(p)
  PROVE  TypeInv'
  <1>1. TypeOK'
    BY FraudAssumption, RecordsAssumption
    DEF Predict, AtRest, memory, trainVars, history, Result, TypeInv, TypeOK,
        ProcessInv, ThreadInv
  <1>2. ProcessInv'
    BY
    DEF Predict, memory, trainVars, history, TypeInv, TypeOK, ProcessInv, AtRest,
        Threads
  <1>3. ThreadInv'
    BY FraudAssumption DEF Predict, memory, trainVars, history, TypeInv, TypeOK, ThreadInv
  <1>4. MadeInv'
    BY DEF Predict, memory, trainVars, TypeInv, MadeInv, Creating
  <1>. QED BY <1>1, <1>2, <1>3, <1>4 DEF TypeInv

LEMMA ScoreTypes ==
  ASSUME TypeInv, NEW p \in Predictors, Score(p)
  PROVE  TypeInv'
  <1>1. TypeOK'
    BY FraudAssumption, RecordsAssumption
    DEF Score, AtRest, memory, trainVars, history, Result, TypeInv, TypeOK, ProcessInv,
        ThreadInv
  <1>2. ProcessInv'
    BY DEF Score, memory, trainVars, history, TypeInv, TypeOK, ProcessInv, AtRest, Threads
  <1>3. ThreadInv'
    BY FraudAssumption DEF Score, memory, trainVars, history, TypeInv, TypeOK, ThreadInv
  <1>4. MadeInv'
    BY DEF Score, memory, trainVars, TypeInv, MadeInv, Creating
  <1>. QED BY <1>1, <1>2, <1>3, <1>4 DEF TypeInv

LEMMA ReturnTypes ==
  ASSUME TypeInv, NEW p \in Predictors, Return(p)
  PROVE  TypeInv'
  <1>1. TypeOK'
    BY FraudAssumption, RecordsAssumption
    DEF Return, AtRest, memory, trainVars, history, Result, TypeInv, TypeOK,
        ProcessInv, ThreadInv
  <1>2. ProcessInv'
    BY
    DEF Return, memory, trainVars, history, TypeInv, TypeOK, ProcessInv, AtRest, Threads
  <1>3. ThreadInv'
    BY FraudAssumption DEF Return, memory, trainVars, history, TypeInv, TypeOK, ThreadInv
  <1>4. MadeInv'
    BY DEF Return, memory, trainVars, TypeInv, MadeInv, Creating
  <1>. QED BY <1>1, <1>2, <1>3, <1>4 DEF TypeInv

LEMMA ReplyTypes ==
  ASSUME TypeInv, NEW p \in Predictors, Reply(p)
  PROVE  TypeInv'
  <1>1. TypeOK'
    BY FraudAssumption, RecordsAssumption
    DEF Reply, AtRest, memory, trainVars, history, Result, TypeInv, TypeOK, ProcessInv,
        ThreadInv
  <1>2. ProcessInv'
    BY DEF Reply, memory, trainVars, history, TypeInv, TypeOK, ProcessInv, AtRest, Threads
  <1>3. ThreadInv'
    BY FraudAssumption DEF Reply, memory, trainVars, history, TypeInv, TypeOK, ThreadInv
  <1>4. MadeInv'
    BY DEF Reply, memory, trainVars, TypeInv, MadeInv, Creating
  <1>. QED BY <1>1, <1>2, <1>3, <1>4 DEF TypeInv

LEMMA TypeStep == TypeInv /\ [Next]_vars => TypeInv'
  <1> SUFFICES ASSUME TypeInv, [Next]_vars
               PROVE  TypeInv'
    OBVIOUS
  <1>1. ASSUME NEW t \in Threads, Train(t)
        PROVE  TypeInv'
    BY <1>1, RetrainTypes, CreateTypes, BeginFitTypes, EndFitTypes, SetDateTypes,
       SetVersionTypes,
       BeginSaveTypes, EndSaveTypes, AnswerTypes, FitFailsTypes, SaveFailsTypes DEF Train
  <1>2. ASSUME NEW p \in Predictors, Predict(p) \/ Score(p) \/ Return(p) \/ Reply(p)
        PROVE  TypeInv'
    BY <1>2, PredictTypes, ScoreTypes, ReturnTypes, ReplyTypes
  <1>3. CASE UNCHANGED vars
    BY <1>3
    DEF vars, memory, trainVars, predictVars, history, TypeInv, TypeOK, ProcessInv,
        AtRest,
       ThreadInv, MadeInv, Creating
  <1>. QED BY <1>1, <1>2, <1>3, BootLoadTypes, BootTrainTypes, CrashTypes
           DEF Next, BootFails

-----------------------------------------------------------------------------
(* Trainings that follow each other.                                         *)

FollowInv == SoloInv /\ ReportedInv /\ FileMatches /\ AnsweredIsSaved

LEMMA FollowInit == Init => FollowInv
  BY
  DEF Init, FollowInv, SoloInv, OwnInv, ReportedInv, FileMatches, AnsweredIsSaved,
      AtRest

\* The thread that is under way alone, and nothing of the others.
LEMMA FollowOne ==
  ASSUME TypeInv, FollowInv, ~overlap, NEW t \in Threads, pc[t] # "idle"
  PROVE  /\ \A u \in Threads \ {t} : pc[u] = "idle"
         /\ ~AtRest /\ clobbered = {} /\ OwnInv
  BY DEF FollowInv, SoloInv, AtRest

\* Once trainings have overlapped nothing more is said.
LEMMA FollowOverlap ==
  ASSUME overlap'
  PROVE  FollowInv'
  BY DEF FollowInv, SoloInv, ReportedInv, FileMatches, AnsweredIsSaved

LEMMA BootLoadFollow ==
  ASSUME TypeInv, TypeInv', FollowInv, ~overlap', BootLoad
  PROVE  FollowInv'
  <1>1. /\ UNCHANGED <<made, file, pc, clobbered, retrained, overlap>>
        /\ AtRest /\ file \notin {None, Torn}
        /\ model' = file.model /\ version' = file.version
    BY DEF BootLoad, trainVars, TypeInv, ProcessInv
  <1>2. file.version = file.model
    BY <1>1 DEF FollowInv, FileMatches
  <1>. QED BY <1>1, <1>2
           DEF FollowInv, SoloInv, OwnInv, ReportedInv, FileMatches, AnsweredIsSaved,
               AtRest

LEMMA BootTrainFollow ==
  ASSUME TypeInv, TypeInv', FollowInv, ~overlap', BootTrain
  PROVE  FollowInv'
  <1>1. /\ UNCHANGED <<made, fitted, model, version, file, clobbered, retrained, overlap>>
        /\ AtRest /\ pc' = [pc EXCEPT ![Boot] = "create"]
    BY DEF BootTrain, Step, memory, TypeInv, ProcessInv
  <1>2. Boot \in Threads /\ pc \in [Threads -> {"idle"}]
    BY <1>1 DEF Threads, AtRest, TypeInv, TypeOK
  <1>. QED BY <1>1, <1>2
           DEF FollowInv, SoloInv, OwnInv, ReportedInv, FileMatches, AnsweredIsSaved,
               AtRest

LEMMA CrashFollow ==
  ASSUME TypeInv, TypeInv', FollowInv, ~overlap', Crash
  PROVE  FollowInv'
  <1>1. /\ UNCHANGED <<made, overlap>> /\ ~overlap
        /\ model' = None /\ fitted' = {} /\ clobbered' = {}
        /\ \A t \in Threads : pc'[t] = "idle"
        /\ (file' = file /\ retrained' \subseteq retrained) \/ (file' = None /\ retrained' = {})
    BY DEF Crash
  <1>. QED BY <1>1
           DEF FollowInv, SoloInv, OwnInv, ReportedInv, FileMatches, AnsweredIsSaved,
               AtRest

LEMMA RetrainFollow ==
  ASSUME TypeInv, TypeInv', FollowInv, ~overlap', NEW t \in Threads, Retrain(t)
  PROVE  FollowInv'
  <1>1. /\ UNCHANGED <<made, fitted, model, version, file, clobbered, retrained>>
        /\ ~overlap /\ AtRest /\ pc' = [pc EXCEPT ![t] = "create"]
    BY DEF Retrain, Step, memory
  <1>2. pc \in [Threads -> {"idle"}]
    BY <1>1 DEF AtRest, TypeInv, TypeOK
  <1>. QED BY <1>1, <1>2
           DEF FollowInv, SoloInv, OwnInv, ReportedInv, FileMatches, AnsweredIsSaved,
               AtRest

\* A step of the thread that is under way alone, to another place: what it has
\* there, and what became of the file, is all there is to show.
LEMMA FollowStep ==
  ASSUME TypeInv, TypeInv', FollowInv, ~overlap, UNCHANGED overlap,
         NEW t \in Threads, pc[t] # "idle", NEW label, Step(t, label),
         clobbered' = {}, OwnInv',
         label = "idle" => (model' \in fitted' => version' = model'),
         ReportedInv', FileMatches', AnsweredIsSaved'
  PROVE  FollowInv'
  <1>1. \A u \in Threads \ {t} : pc[u] = "idle" /\ pc'[u] = "idle"
    BY FollowOne DEF Step, TypeInv, TypeOK
  <1>2. pc'[t] = label
    BY DEF Step, TypeInv, TypeOK
  <1>. QED BY <1>1, <1>2 DEF FollowInv, SoloInv, AtRest

LEMMA CreateFollow ==
  ASSUME TypeInv, TypeInv', FollowInv, ~overlap', NEW t \in Threads, Create(t)
  PROVE  FollowInv'
  <1>1. /\ ~overlap /\ UNCHANGED overlap
        /\ pc[t] = "create" /\ Step(t, "fit")
    BY DEF Create, Raise, history
  <1>2. /\ \A u \in Threads \ {t} : pc[u] = "idle" /\ pc'[u] = "idle"
        /\ pc'[t] = "fit" /\ clobbered = {} /\ OwnInv
    BY <1>1, FollowOne DEF Step, TypeInv, TypeOK
  <1>3. clobbered' = {}
    BY <1>1, <1>2 DEF Create, Step, Raise, Fitting, Saved, memory, predictVars, history
  <1>4. OwnInv'
    BY <1>1, <1>2, FraudAssumption
    DEF Create, Step, Raise, Fitting, Saved, memory, predictVars, history, OwnInv,
        TypeInv, TypeOK, ThreadInv, MadeInv
  <1>5. ReportedInv' /\ FileMatches' /\ AnsweredIsSaved'
    <2>1. \A v \in Models : v <= made => v <= made + 1
      BY FraudAssumption DEF TypeInv, TypeOK, Models
    <2>2. made' = made + 1 /\ UNCHANGED <<file, retrained, overlap>> /\ retrained \subseteq Models
      BY DEF Create, history, TypeInv, TypeOK
    <2>. QED BY <2>1, <2>2 DEF FollowInv, ReportedInv, FileMatches, AnsweredIsSaved
  <1>6. "fit" = "idle" => (model' \in fitted' => version' = model')
    BY <1>1, <1>2
    DEF Create, Step, Raise, Fitting, Saved, memory, predictVars, history, OwnInv
  <1>. QED BY <1>1, <1>3, <1>4, <1>5, <1>6, FollowStep

LEMMA BeginFitFollow ==
  ASSUME TypeInv, TypeInv', FollowInv, ~overlap', NEW t \in Threads, BeginFit(t)
  PROVE  FollowInv'
  <1>1. /\ ~overlap /\ UNCHANGED overlap
        /\ pc[t] = "fit" /\ Step(t, "fitting")
    BY DEF BeginFit, Raise, history
  <1>2. /\ \A u \in Threads \ {t} : pc[u] = "idle" /\ pc'[u] = "idle"
        /\ pc'[t] = "fitting" /\ clobbered = {} /\ OwnInv
    BY <1>1, FollowOne DEF Step, TypeInv, TypeOK
  <1>3. clobbered' = {}
    BY <1>1, <1>2 DEF BeginFit, Step, Raise, Fitting, Saved, memory, predictVars, history
  <1>4. OwnInv'
    BY <1>1, <1>2, FraudAssumption
    DEF BeginFit, Step, Raise, Fitting, Saved, memory, predictVars, history, OwnInv,
        TypeInv, TypeOK, ThreadInv, MadeInv
  <1>5. ReportedInv' /\ FileMatches' /\ AnsweredIsSaved'
    BY <1>1, <1>2, FraudAssumption, RecordsAssumption, PayloadType
    DEF BeginFit, Step, Raise, Fitting, Saved, memory, predictVars, history, OwnInv,
        FollowInv, ReportedInv, FileMatches, AnsweredIsSaved, TypeInv, TypeOK
  <1>6. "fitting" = "idle" => (model' \in fitted' => version' = model')
    BY <1>1, <1>2
    DEF BeginFit, Step, Raise, Fitting, Saved, memory, predictVars, history, OwnInv
  <1>. QED BY <1>1, <1>3, <1>4, <1>5, <1>6, FollowStep

LEMMA EndFitFollow ==
  ASSUME TypeInv, TypeInv', FollowInv, ~overlap', NEW t \in Threads, EndFit(t)
  PROVE  FollowInv'
  <1>1. /\ ~overlap /\ UNCHANGED overlap
        /\ pc[t] = "fitting" /\ Step(t, "date")
    BY DEF EndFit, Raise, history
  <1>2. /\ \A u \in Threads \ {t} : pc[u] = "idle" /\ pc'[u] = "idle"
        /\ pc'[t] = "date" /\ clobbered = {} /\ OwnInv
    BY <1>1, FollowOne DEF Step, TypeInv, TypeOK
  <1>3. clobbered' = {}
    BY <1>1, <1>2 DEF EndFit, Step, Raise, Fitting, Saved, memory, predictVars, history
  <1>4. OwnInv'
    BY <1>1, <1>2, FraudAssumption
    DEF EndFit, Step, Raise, Fitting, Saved, memory, predictVars, history, OwnInv,
        TypeInv, TypeOK, ThreadInv, MadeInv
  <1>5. ReportedInv' /\ FileMatches' /\ AnsweredIsSaved'
    BY <1>1, <1>2, FraudAssumption, RecordsAssumption, PayloadType
    DEF EndFit, Step, Raise, Fitting, Saved, memory, predictVars, history, OwnInv,
        FollowInv, ReportedInv, FileMatches, AnsweredIsSaved, TypeInv, TypeOK
  <1>6. "date" = "idle" => (model' \in fitted' => version' = model')
    BY <1>1, <1>2
    DEF EndFit, Step, Raise, Fitting, Saved, memory, predictVars, history, OwnInv
  <1>. QED BY <1>1, <1>3, <1>4, <1>5, <1>6, FollowStep

LEMMA SetDateFollow ==
  ASSUME TypeInv, TypeInv', FollowInv, ~overlap', NEW t \in Threads, SetDate(t)
  PROVE  FollowInv'
  <1>1. /\ ~overlap /\ UNCHANGED overlap
        /\ pc[t] = "date" /\ Step(t, "version")
    BY DEF SetDate, Raise, history
  <1>2. /\ \A u \in Threads \ {t} : pc[u] = "idle" /\ pc'[u] = "idle"
        /\ pc'[t] = "version" /\ clobbered = {} /\ OwnInv
    BY <1>1, FollowOne DEF Step, TypeInv, TypeOK
  <1>3. clobbered' = {}
    BY <1>1, <1>2 DEF SetDate, Step, Raise, Fitting, Saved, memory, predictVars, history
  <1>4. OwnInv'
    BY <1>1, <1>2, FraudAssumption
    DEF SetDate, Step, Raise, Fitting, Saved, memory, predictVars, history, OwnInv,
        TypeInv, TypeOK, ThreadInv, MadeInv
  <1>5. ReportedInv' /\ FileMatches' /\ AnsweredIsSaved'
    BY <1>1, <1>2, FraudAssumption, RecordsAssumption, PayloadType
    DEF SetDate, Step, Raise, Fitting, Saved, memory, predictVars, history, OwnInv,
        FollowInv, ReportedInv, FileMatches, AnsweredIsSaved, TypeInv, TypeOK
  <1>6. "version" = "idle" => (model' \in fitted' => version' = model')
    BY <1>1, <1>2
    DEF SetDate, Step, Raise, Fitting, Saved, memory, predictVars, history, OwnInv
  <1>. QED BY <1>1, <1>3, <1>4, <1>5, <1>6, FollowStep

LEMMA SetVersionFollow ==
  ASSUME TypeInv, TypeInv', FollowInv, ~overlap', NEW t \in Threads, SetVersion(t)
  PROVE  FollowInv'
  <1>1. /\ ~overlap /\ UNCHANGED overlap
        /\ pc[t] = "version" /\ Step(t, "save")
    BY DEF SetVersion, Raise, history
  <1>2. /\ \A u \in Threads \ {t} : pc[u] = "idle" /\ pc'[u] = "idle"
        /\ pc'[t] = "save" /\ clobbered = {} /\ OwnInv
    BY <1>1, FollowOne DEF Step, TypeInv, TypeOK
  <1>3. clobbered' = {}
    BY <1>1, <1>2
    DEF SetVersion, Step, Raise, Fitting, Saved, memory, predictVars, history
  <1>4. OwnInv'
    BY <1>1, <1>2, FraudAssumption
    DEF SetVersion, Step, Raise, Fitting, Saved, memory, predictVars, history, OwnInv,
        TypeInv, TypeOK, ThreadInv, MadeInv
  <1>5. ReportedInv' /\ FileMatches' /\ AnsweredIsSaved'
    BY <1>1, <1>2, FraudAssumption, RecordsAssumption, PayloadType
    DEF SetVersion, Step, Raise, Fitting, Saved, memory, predictVars, history, OwnInv,
        FollowInv, ReportedInv, FileMatches, AnsweredIsSaved, TypeInv, TypeOK
  <1>6. "save" = "idle" => (model' \in fitted' => version' = model')
    BY <1>1, <1>2
    DEF SetVersion, Step, Raise, Fitting, Saved, memory, predictVars, history, OwnInv
  <1>. QED BY <1>1, <1>3, <1>4, <1>5, <1>6, FollowStep

LEMMA BeginSaveFollow ==
  ASSUME TypeInv, TypeInv', FollowInv, ~overlap', NEW t \in Threads, BeginSave(t)
  PROVE  FollowInv'
  <1>1. /\ ~overlap /\ UNCHANGED overlap
        /\ pc[t] = "save" /\ Step(t, "dump")
    BY DEF BeginSave, Raise, history
  <1>2. /\ \A u \in Threads \ {t} : pc[u] = "idle" /\ pc'[u] = "idle"
        /\ pc'[t] = "dump" /\ clobbered = {} /\ OwnInv
    BY <1>1, FollowOne DEF Step, TypeInv, TypeOK
  <1>3. clobbered' = {}
    BY <1>1, <1>2 DEF BeginSave, Step, Raise, Fitting, Saved, memory, predictVars, history
  <1>4. OwnInv'
    <2> DEFINE row == [model |-> model, fitted |-> model \in fitted, version |-> version, date |-> date]
    <2>1. row.model = model /\ row.fitted = (model \in fitted) /\ row.version = version /\ row.date = date
      OBVIOUS
    <2>2. payload' = [payload EXCEPT ![t] = row]
      BY DEF BeginSave
    <2> HIDE DEF row
    <2>3. /\ mine[t] = made /\ row.model = made /\ row.fitted /\ row.version = made /\ row.date = made
          /\ model = made /\ made \in fitted /\ date = made /\ version = made
      BY <1>1, <1>2, <2>1 DEF OwnInv
    <2>4. payload'[t] = row
      BY <2>2 DEF TypeInv, TypeOK
    <2>5. UNCHANGED <<made, memory, mine, target>>
      BY DEF BeginSave
    <2>. QED BY <1>2, <2>3, <2>4, <2>5 DEF memory, OwnInv
  <1>5. ReportedInv' /\ FileMatches' /\ AnsweredIsSaved'
    BY <1>1, <1>2, FraudAssumption, RecordsAssumption, PayloadType
    DEF BeginSave, Step, Raise, Fitting, Saved, memory, predictVars, history, OwnInv,
        FollowInv, ReportedInv, FileMatches, AnsweredIsSaved, TypeInv, TypeOK
  <1>6. "dump" = "idle" => (model' \in fitted' => version' = model')
    BY <1>1, <1>2
    DEF BeginSave, Step, Raise, Fitting, Saved, memory, predictVars, history, OwnInv
  <1>. QED BY <1>1, <1>3, <1>4, <1>5, <1>6, FollowStep

LEMMA EndSaveFollow ==
  ASSUME TypeInv, TypeInv', FollowInv, ~overlap', NEW t \in Threads, EndSave(t)
  PROVE  FollowInv'
  <1>1. /\ ~overlap /\ UNCHANGED overlap
        /\ pc[t] = "dump" /\ Step(t, "answer")
    BY DEF EndSave, Raise, history
  <1>2. /\ \A u \in Threads \ {t} : pc[u] = "idle" /\ pc'[u] = "idle"
        /\ pc'[t] = "answer" /\ clobbered = {} /\ OwnInv
    BY <1>1, FollowOne DEF Step, TypeInv, TypeOK
  <1>3. clobbered' = {}
    BY <1>1, <1>2 DEF EndSave, Step, Raise, Fitting, Saved, memory, predictVars, history
  <1>4. OwnInv'
    BY <1>1, <1>2, FraudAssumption
    DEF EndSave, Step, Raise, Fitting, Saved, memory, predictVars, history, OwnInv,
        TypeInv, TypeOK, ThreadInv, MadeInv
  <1>5. ReportedInv' /\ FileMatches' /\ AnsweredIsSaved'
    BY <1>1, <1>2, FraudAssumption, RecordsAssumption, PayloadType
    DEF EndSave, Step, Raise, Fitting, Saved, memory, predictVars, history, OwnInv,
        FollowInv, ReportedInv, FileMatches, AnsweredIsSaved, TypeInv, TypeOK
  <1>6. "answer" = "idle" => (model' \in fitted' => version' = model')
    BY <1>1, <1>2
    DEF EndSave, Step, Raise, Fitting, Saved, memory, predictVars, history, OwnInv
  <1>. QED BY <1>1, <1>3, <1>4, <1>5, <1>6, FollowStep

LEMMA AnswerFollow ==
  ASSUME TypeInv, TypeInv', FollowInv, ~overlap', NEW t \in Threads, Answer(t)
  PROVE  FollowInv'
  <1>1. /\ ~overlap /\ UNCHANGED overlap
        /\ pc[t] = "answer" /\ Step(t, "idle")
    BY DEF Answer, Raise, history
  <1>2. /\ \A u \in Threads \ {t} : pc[u] = "idle" /\ pc'[u] = "idle"
        /\ pc'[t] = "idle" /\ clobbered = {} /\ OwnInv
    BY <1>1, FollowOne DEF Step, TypeInv, TypeOK
  <1>3. clobbered' = {}
    BY <1>1, <1>2 DEF Answer, Step, Raise, Fitting, Saved, memory, predictVars, history
  <1>4. OwnInv'
    BY <1>1, <1>2, FraudAssumption
    DEF Answer, Step, Raise, Fitting, Saved, memory, predictVars, history, OwnInv,
        TypeInv, TypeOK, ThreadInv, MadeInv
  <1>5. ReportedInv' /\ FileMatches' /\ AnsweredIsSaved'
    BY <1>1, <1>2, FraudAssumption, RecordsAssumption, PayloadType
    DEF Answer, Step, Raise, Fitting, Saved, memory, predictVars, history, OwnInv,
        FollowInv, ReportedInv, FileMatches, AnsweredIsSaved, TypeInv, TypeOK
  <1>6. "idle" = "idle" => (model' \in fitted' => version' = model')
    BY <1>1, <1>2
    DEF Answer, Step, Raise, Fitting, Saved, memory, predictVars, history, OwnInv
  <1>. QED BY <1>1, <1>3, <1>4, <1>5, <1>6, FollowStep

LEMMA FitFailsFollow ==
  ASSUME TypeInv, TypeInv', FollowInv, ~overlap', NEW t \in Threads, FitFails(t)
  PROVE  FollowInv'
  <1>1. /\ ~overlap /\ UNCHANGED overlap
        /\ pc[t] = "fitting" /\ Step(t, "idle")
    BY DEF FitFails, Raise, history
  <1>2. /\ \A u \in Threads \ {t} : pc[u] = "idle" /\ pc'[u] = "idle"
        /\ pc'[t] = "idle" /\ clobbered = {} /\ OwnInv
    BY <1>1, FollowOne DEF Step, TypeInv, TypeOK
  <1>3. clobbered' = {}
    BY <1>1, <1>2 DEF FitFails, Step, Raise, Fitting, Saved, memory, predictVars, history
  <1>4. OwnInv'
    BY <1>1, <1>2, FraudAssumption
    DEF FitFails, Step, Raise, Fitting, Saved, memory, predictVars, history, OwnInv,
        TypeInv, TypeOK, ThreadInv, MadeInv
  <1>5. ReportedInv' /\ FileMatches' /\ AnsweredIsSaved'
    BY <1>1, <1>2, FraudAssumption, RecordsAssumption, PayloadType
    DEF FitFails, Step, Raise, Fitting, Saved, memory, predictVars, history, OwnInv,
        FollowInv, ReportedInv, FileMatches, AnsweredIsSaved, TypeInv, TypeOK
  <1>6. "idle" = "idle" => (model' \in fitted' => version' = model')
    BY <1>1, <1>2
    DEF FitFails, Step, Raise, Fitting, Saved, memory, predictVars, history, OwnInv
  <1>. QED BY <1>1, <1>3, <1>4, <1>5, <1>6, FollowStep

LEMMA SaveFailsFollow ==
  ASSUME TypeInv, TypeInv', FollowInv, ~overlap', NEW t \in Threads, SaveFails(t)
  PROVE  FollowInv'
  <1>1. /\ ~overlap /\ UNCHANGED overlap
        /\ pc[t] = "dump" /\ Step(t, "idle")
    BY DEF SaveFails, Raise, history
  <1>2. /\ \A u \in Threads \ {t} : pc[u] = "idle" /\ pc'[u] = "idle"
        /\ pc'[t] = "idle" /\ clobbered = {} /\ OwnInv
    BY <1>1, FollowOne DEF Step, TypeInv, TypeOK
  <1>3. clobbered' = {}
    BY <1>1, <1>2 DEF SaveFails, Step, Raise, Fitting, Saved, memory, predictVars, history
  <1>4. OwnInv'
    BY <1>1, <1>2, FraudAssumption
    DEF SaveFails, Step, Raise, Fitting, Saved, memory, predictVars, history, OwnInv,
        TypeInv, TypeOK, ThreadInv, MadeInv
  <1>5. ReportedInv' /\ FileMatches' /\ AnsweredIsSaved'
    BY <1>1, <1>2, FraudAssumption, RecordsAssumption, PayloadType
    DEF SaveFails, Step, Raise, Fitting, Saved, memory, predictVars, history, OwnInv,
        FollowInv, ReportedInv, FileMatches, AnsweredIsSaved, TypeInv, TypeOK
  <1>6. "idle" = "idle" => (model' \in fitted' => version' = model')
    BY <1>1, <1>2
    DEF SaveFails, Step, Raise, Fitting, Saved, memory, predictVars, history, OwnInv
  <1>. QED BY <1>1, <1>3, <1>4, <1>5, <1>6, FollowStep

LEMMA FollowStill ==
  ASSUME FollowInv, UNCHANGED <<made, fitted, model, version, date, file, pc, mine, target, payload,
                                clobbered, retrained, overlap>>
  PROVE  FollowInv'
  BY DEF FollowInv, SoloInv, OwnInv, ReportedInv, FileMatches, AnsweredIsSaved, AtRest

LEMMA FollowNext == TypeInv /\ TypeInv' /\ FollowInv /\ [Next]_vars => FollowInv'
  <1> SUFFICES ASSUME TypeInv, TypeInv', FollowInv, [Next]_vars, ~overlap'
               PROVE  FollowInv'
    BY FollowOverlap
  <1>1. ASSUME NEW t \in Threads, Train(t)
        PROVE  FollowInv'
    BY <1>1, RetrainFollow, CreateFollow, BeginFitFollow, EndFitFollow, SetDateFollow,
       SetVersionFollow,
       BeginSaveFollow, EndSaveFollow, AnswerFollow, FitFailsFollow, SaveFailsFollow DEF Train
  <1>2. ASSUME NEW p \in Predictors, Predict(p) \/ Score(p) \/ Return(p) \/ Reply(p)
        PROVE  FollowInv'
    BY <1>2, FollowStill DEF Predict, Score, Return, Reply, memory, trainVars, history
  <1>3. CASE UNCHANGED vars
    BY <1>3, FollowStill DEF vars, memory, trainVars, history
  <1>. QED BY <1>1, <1>2, <1>3, BootLoadFollow, BootTrainFollow, CrashFollow
           DEF Next, BootFails

-----------------------------------------------------------------------------
(* Models that can be used.                                                  *)

LEMMA FitInit == Init => FitInv
  BY DEF Init, FitInv

\* A thread that keeps its place and its model keeps the promise of fitting it.
LEMMA FitKept ==
  ASSUME TypeInv, FitInv, UNCHANGED <<model, fitted, unfit, atStart, target>>,
         NEW t \in Threads, NEW label, pc[t] \notin {"fit", "fitting"}, Step(t, label)
  PROVE  FitInv'
  BY DEF FitInv, Step, TypeInv, TypeOK

LEMMA FitStep == TypeInv /\ FitInv /\ [Next]_vars => FitInv'
  <1> SUFFICES ASSUME TypeInv, FitInv, [Next]_vars
               PROVE  FitInv'
    OBVIOUS
  <1>1. CASE BootLoad
    <2>1. model' <= atStart' /\ model' \in Nat /\ atStart' \in Nat
      BY <1>1, FileType, FraudAssumption DEF BootLoad, TypeInv, TypeOK, Models
    <2>. QED BY <2>1 DEF FitInv
  <1>2. CASE BootTrain \/ Crash
    BY <1>2 DEF BootTrain, Crash, memory, FitInv, TypeInv, ProcessInv
  <1>3. ASSUME NEW t \in Threads,
               \/ Retrain(t) \/ SetDate(t) \/ SetVersion(t)
               \/ BeginSave(t) \/ EndSave(t) \/ Answer(t) \/ SaveFails(t)
        PROVE  FitInv'
    BY <1>3, FitKept
    DEF Retrain, SetDate, SetVersion, BeginSave, EndSave, Answer, SaveFails, Raise, memory, history
  <1>4. ASSUME NEW t \in Threads, Create(t)
        PROVE  FitInv'
    BY <1>4 DEF Create, Step, FitInv, TypeInv, TypeOK
  <1>5. ASSUME NEW t \in Threads, BeginFit(t)
        PROVE  FitInv'
    BY <1>5 DEF BeginFit, Fitting, Step, FitInv, TypeInv, TypeOK
  <1>6. ASSUME NEW t \in Threads, EndFit(t) \/ FitFails(t)
        PROVE  FitInv'
    <2>1. /\ UNCHANGED <<model, atStart>>
          /\ pc[t] = "fitting" /\ \A u \in Threads \ {t} : pc'[u] = pc[u] /\ target'[u] = target[u]
          /\ \/ fitted' = fitted \cup {target[t]} /\ unfit' = unfit \ {target[t]}
             \/ fitted' = fitted /\ unfit' = unfit \cup {target[t]}
      BY <1>6 DEF EndFit, FitFails, Raise, Step, memory, TypeInv, TypeOK
    <2>. QED BY <2>1 DEF FitInv
  <1>7. ASSUME NEW p \in Predictors, Predict(p) \/ Score(p) \/ Return(p) \/ Reply(p)
        PROVE  FitInv'
    BY <1>7 DEF Predict, Score, Return, Reply, memory, trainVars, history, FitInv
  <1>8. CASE UNCHANGED vars
    BY <1>8 DEF vars, memory, trainVars, history, FitInv
  <1>. QED BY <1>1, <1>2, <1>3, <1>4, <1>5, <1>6, <1>7, <1>8 DEF Next, BootFails, Train

-----------------------------------------------------------------------------
(* Predictions.                                                              *)

PredictInv == QuietInv /\ VersionNamesScorer

LEMMA PredictInit == Init => PredictInv
  BY DEF Init, PredictInv, QuietInv, VersionNamesScorer

\* No prediction is left that nothing was under way with.
LEMMA NoneQuiet ==
  ASSUME quiet' = {}
  PROVE  PredictInv'
  BY DEF PredictInv, QuietInv, VersionNamesScorer

\* While a thread trains there is none.
LEMMA QuietAtRest ==
  ASSUME PredictInv, NEW t \in Threads, pc[t] # "idle"
  PROVE  quiet = {}
  BY DEF PredictInv, QuietInv, AtRest

LEMMA PredictStep == TypeInv /\ FollowInv /\ PredictInv /\ [Next]_vars => PredictInv'
  <1> SUFFICES ASSUME TypeInv, FollowInv, PredictInv, [Next]_vars
               PROVE  PredictInv'
    OBVIOUS
  <1>1. CASE BootLoad \/ BootTrain
    <2>1. quiet = {}
      BY <1>1 DEF BootLoad, BootTrain, TypeInv, TypeOK, ProcessInv
    <2>. QED BY <1>1, <2>1, NoneQuiet DEF BootLoad, BootTrain
  <1>2. CASE Crash
    BY <1>2, NoneQuiet DEF Crash
  <1>3. ASSUME NEW t \in Threads, Train(t)
        PROVE  PredictInv'
    <2>1. CASE Retrain(t)
      BY <2>1, NoneQuiet DEF Retrain
    <2>2. CASE ~Retrain(t)
      <3>1. pc[t] # "idle" /\ UNCHANGED quiet
        BY <1>3, <2>2
        DEF Train, Create, BeginFit, EndFit, SetDate, SetVersion, BeginSave, EndSave,
            Answer,
           FitFails, SaveFails, history
      <3>. QED BY <3>1, QuietAtRest, NoneQuiet
    <2>. QED BY <2>1, <2>2
  <1>4. ASSUME NEW p \in Predictors, Predict(p)
        PROVE  PredictInv'
    <2>1. /\ UNCHANGED <<pc, model, fitted, version, result, overlap>>
          /\ ppc[p] = "idle" /\ scorer' = [scorer EXCEPT ![p] = model] /\ ppc' = [ppc EXCEPT ![p] = "score"]
          /\ quiet' = IF AtRest THEN quiet \cup {p} ELSE quiet
      BY <1>4 DEF Predict, memory, trainVars
    <2>2. result[p] = None /\ p \notin quiet
      BY <2>1 DEF TypeInv, TypeOK, ThreadInv
    <2>. QED BY <2>1, <2>2
             DEF PredictInv, QuietInv, VersionNamesScorer, AtRest, TypeInv, TypeOK
  <1>5. ASSUME NEW p \in Predictors, Score(p)
        PROVE  PredictInv'
    BY <1>5
    DEF Score, memory, trainVars, history, PredictInv, QuietInv, VersionNamesScorer,
        AtRest,
       TypeInv, TypeOK
  <1>6. ASSUME NEW p \in Predictors, Return(p)
        PROVE  PredictInv'
    <2> DEFINE row == [model |-> scorer[p], version |-> version]
    <2>1. row.model = scorer[p] /\ row.version = version
      OBVIOUS
    <2>2. /\ UNCHANGED <<pc, model, fitted, version, scorer, overlap, quiet>>
          /\ ppc[p] = "return" /\ ppc' = [ppc EXCEPT ![p] = "done"] /\ result' = [result EXCEPT ![p] = row]
      BY <1>6 DEF Return, memory, trainVars, history
    <2>3. p \in quiet /\ ~overlap => row.version = row.model
      BY <2>1, <2>2 DEF PredictInv, QuietInv, FollowInv, SoloInv
    <2> HIDE DEF row
    <2>4. QuietInv'
      BY <2>2 DEF PredictInv, QuietInv, AtRest, TypeInv, TypeOK
    <2>5. VersionNamesScorer'
      BY <2>2, <2>3 DEF PredictInv, VersionNamesScorer, TypeInv, TypeOK
    <2>. QED BY <2>4, <2>5 DEF PredictInv
  <1>7. ASSUME NEW p \in Predictors, Reply(p)
        PROVE  PredictInv'
    BY <1>7
    DEF Reply, memory, trainVars, PredictInv, QuietInv, VersionNamesScorer, AtRest,
        TypeInv, TypeOK
  <1>8. CASE UNCHANGED vars
    BY <1>8
    DEF vars, memory, trainVars, predictVars, history, PredictInv, QuietInv,
        VersionNamesScorer, AtRest
  <1>. QED BY <1>1, <1>2, <1>3, <1>4, <1>5, <1>6, <1>7, <1>8 DEF Next, BootFails

-----------------------------------------------------------------------------

ModelInv == TypeInv /\ FollowInv /\ FitInv /\ PredictInv

LEMMA ModelInductive == Spec => []ModelInv
  <1>1. Init => ModelInv
    BY TypeInit, FollowInit, FitInit, PredictInit DEF ModelInv
  <1>2. ModelInv /\ [Next]_vars => ModelInv'
    BY TypeStep, FollowNext, FitStep, PredictStep DEF ModelInv
  <1>. QED BY <1>1, <1>2, PTL DEF Spec

\* The state of the fraud service is well typed, and a service that is up has a
\* model with a version: load_model, or train and save_model, come before the
\* first request.
THEOREM ModelTypes == Spec => []TypeOK
  BY ModelInductive, PTL DEF ModelInv, TypeInv

\* save_model: as long as trainings follow each other, a file that can be read
\* holds a fitted model under its own version.
THEOREM FileIsOneTraining == Spec => []FileMatches
  BY ModelInductive, PTL DEF ModelInv, FollowInv

\* retrain_model: what was answered survives a restart, or something later does.
THEOREM AnsweredSurvives == Spec => []AnsweredIsSaved
  BY ModelInductive, PTL DEF ModelInv, FollowInv

\* However trainings overlap, crash and fail: when none is between making a
\* model and fitting it, the model of this process can be used, unless its fit
\* raised.
THEOREM ModelUsable == Spec => []UsableAtRest
  <1>1. ModelInv => UsableAtRest
    BY DEF ModelInv, FitInv, UsableAtRest
  <1>. QED BY <1>1, ModelInductive, PTL

\* predict: a prediction that no training was under way with names the version of
\* the model that scored it.
THEOREM PredictionNamesScorer == Spec => []VersionNamesScorer
  BY ModelInductive, PTL DEF ModelInv, PredictInv
=============================================================================
