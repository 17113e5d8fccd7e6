----------------------------- MODULE FraudModel -----------------------------
(* One replica of the fraud service: the model in memory, the file it is     *)
(* kept in, and the worker threads that predict and train.  The threads share *)
(* one FraudModelService and no lock, so they interleave between any two of  *)
(* its attributes.  A model is named by the number of the training that made *)
(* it, and so is the version that training gives it.                         *)
EXTENDS Naturals, FiniteSets

CONSTANTS
  Predictors,  \* requests to analyze; a batch is one after the other
  Trainers,    \* requests to retrain
  Boot,        \* the start-up code, which trains when there is no file
  MaxModel,    \* bound on the models that are ever made
  None,
  Torn         \* what a file cut short holds

Threads == Trainers \cup {Boot}

Models == 1 .. MaxModel

ASSUME FraudAssumption ==
  /\ MaxModel \in Nat \ {0}
  /\ Boot \notin Trainers /\ IsFiniteSet(Trainers)
  /\ None \notin Models
  /\ None # Torn

VARIABLES
  mode,      \* the process: "down", "starting" or "up"
  made,      \* how many models have been made
  fitted,    \* models whose fit has returned
  model,     \* self._model
  date,      \* self._training_date, by the training that took it
  version,   \* self._model_version, by the date in it
  file,      \* /data/fraud_model.pkl: None, Torn, or what was saved
  pc,        \* where a training thread is
  mine,      \* the model it made
  target,    \* the model it fits
  payload,   \* what it is about to save
  clobbered, \* threads whose dump overlaps another's
  ppc,       \* where a predicting thread is
  scorer,    \* the model it scores with
  result,    \* what it returned: the model that scored, and the model_version
  retrained, \* history: versions that answered retrain requests reported
  overlap,   \* history: have two trainings ever been under way at once?
  quiet,     \* history: predictions no training was under way with
  unfit,     \* history: models the last fit of which raised
  atStart    \* history: the models made before the process started

memory == <<fitted, model, date, version>>
trainVars == <<pc, mine, target, payload, clobbered>>
predictVars == <<ppc, scorer, result>>
history == <<retrained, overlap, quiet, unfit, atStart>>
vars == <<mode, made, memory, file, trainVars, predictVars, history>>

Archive == [model : Models, fitted : BOOLEAN, version : Models \cup {None}, date : Models \cup {None}]

Result == [model : Models, version : Models]

ASSUME RecordsAssumption == None \notin Archive \cup Result /\ Torn \notin Archive

Init ==
  /\ mode = "down"
  /\ made = 0
  /\ fitted = {} /\ model = None /\ date = None /\ version = None
  /\ file = None
  /\ pc = [t \in Threads |-> "idle"]
  /\ mine = [t \in Threads |-> None]
  /\ target = [t \in Threads |-> None]
  /\ payload = [t \in Threads |-> None]
  /\ clobbered = {}
  /\ ppc = [p \in Predictors |-> "idle"]
  /\ scorer = [p \in Predictors |-> None]
  /\ result = [p \in Predictors |-> None]
  /\ retrained = {}
  /\ overlap = FALSE
  /\ quiet = {} /\ unfit = {}
  /\ atStart = 0

Step(t, label) == pc' = [pc EXCEPT ![t] = label]

-----------------------------------------------------------------------------
(* Start-up.                                                                 *)

\* With a file that joblib can read, the service has its model and is up.
BootLoad ==
  /\ mode = "down"
  /\ file \notin {None, Torn}
  /\ mode' = "up"
  /\ model' = file.model
  /\ fitted' = IF file.fitted THEN fitted \cup {file.model} ELSE fitted \ {file.model}
  /\ version' = file.version
  /\ date' = file.date
  /\ atStart' = made
  /\ UNCHANGED <<made, file, trainVars, predictVars, retrained, overlap, quiet, unfit>>

\* Without one it trains and saves before it takes requests.
BootTrain ==
  /\ mode = "down"
  /\ file = None
  /\ made < MaxModel
  /\ mode' = "starting"
  /\ Step(Boot, "create")
  /\ atStart' = made
  /\ UNCHANGED <<made, memory, file, mine, target, payload, clobbered, predictVars, retrained, overlap,
                 quiet, unfit>>

\* With a file cut short it raises, and the process ends as it began.
BootFails == mode = "down" /\ file = Torn /\ UNCHANGED vars

-----------------------------------------------------------------------------
(* retrain_model: generate, train, save, answer.                             *)

AtRest == \A t \in Threads : pc[t] = "idle"

\* The data is generated in a thread of its own; a bound keeps models few.
Retrain(t) ==
  /\ mode = "up"
  /\ t \in Trainers /\ pc[t] = "idle"
  /\ made + Cardinality({u \in Threads : pc[u] = "create"}) < MaxModel
  /\ Step(t, "create")
  /\ overlap' = (overlap \/ ~AtRest)
  /\ quiet' = {}
  /\ UNCHANGED <<mode, made, memory, file, mine, target, payload, clobbered, predictVars, retrained,
                 unfit, atStart>>

\* self._model is the new forest before it is fitted.
Create(t) ==
  /\ pc[t] = "create"
  /\ made' = made + 1
  /\ mine' = [mine EXCEPT ![t] = made + 1]
  /\ model' = made + 1
  /\ Step(t, "fit")
  /\ UNCHANGED <<mode, fitted, date, version, file, target, payload, clobbered, predictVars, history>>

\* The forest self._model names when the call of fit is made.
Fitting(t) == model

\* A forest that is fitted once more loses its trees for the time it takes.
BeginFit(t) ==
  /\ pc[t] = "fit"
  /\ fitted' = fitted \ {Fitting(t)}
  /\ target' = [target EXCEPT ![t] = Fitting(t)]
  /\ Step(t, "fitting")
  /\ UNCHANGED <<mode, made, model, date, version, file, mine, payload, clobbered, predictVars, history>>

\* Mutant: a clone of the model is fitted, and forgotten.
EndFitOfClone(t) ==
  /\ pc[t] = "fitting"
  /\ target' = [target EXCEPT ![t] = None]
  /\ Step(t, "date")
  /\ UNCHANGED <<mode, made, memory, file, mine, payload, clobbered, predictVars, history>>

EndFit(t) ==
  /\ pc[t] = "fitting"
  /\ fitted' = fitted \cup {target[t]}
  /\ unfit' = unfit \ {target[t]}
  /\ target' = [target EXCEPT ![t] = None]
  /\ Step(t, "date")
  /\ UNCHANGED <<mode, made, model, date, version, file, mine, payload, clobbered, predictVars, retrained,
                 overlap, quiet, atStart>>

\* The request is answered 500: the attributes and the file stay as they are.
Raise(t) ==
  /\ mine' = [mine EXCEPT ![t] = None]
  /\ Step(t, "idle")

\* fit raises, for want of memory, in a training on request; in the one of the
\* start-up that ends the process (Crash).
FitFails(t) ==
  /\ t \in Trainers /\ pc[t] = "fitting"
  /\ unfit' = unfit \cup {target[t]}
  /\ target' = [target EXCEPT ![t] = None]
  /\ Raise(t)
  /\ UNCHANGED <<mode, made, memory, file, payload, clobbered, predictVars, retrained, overlap, quiet,
                 atStart>>

SetDate(t) ==
  /\ pc[t] = "date"
  /\ date' = mine[t]
  /\ Step(t, "version")
  /\ UNCHANGED <<mode, made, fitted, model, version, file, mine, target, payload, clobbered, predictVars,
                 history>>

\* Mutant: the version is given once.
SetFirstVersion(t) ==
  /\ pc[t] = "version"
  /\ version' = IF version = None THEN date ELSE version
  /\ Step(t, "save")
  /\ UNCHANGED <<mode, made, fitted, model, date, file, mine, target, payload, clobbered, predictVars,
                 history>>

\* The version is made of self._training_date, read again.
SetVersion(t) ==
  /\ pc[t] = "version"
  /\ version' = date
  /\ Step(t, "save")
  /\ UNCHANGED <<mode, made, fitted, model, date, file, mine, target, payload, clobbered, predictVars,
                 history>>

\* Mutant: a file that exists is left alone.
SaveUnlessThere(t) ==
  /\ pc[t] = "save"
  /\ IF file = None
       THEN /\ payload' = [payload EXCEPT ![t] =
                 [model |-> model, fitted |-> model \in fitted, version |-> version, date |-> date]]
            /\ file' = Torn
            /\ Step(t, "dump")
       ELSE Step(t, "answer") /\ UNCHANGED <<payload, file>>
  /\ UNCHANGED <<mode, made, memory, mine, target, clobbered, predictVars, history>>

\* save_model collects the attributes; joblib opens the file, which empties it.
BeginSave(t) ==
  /\ pc[t] = "save"
  /\ payload' = [payload EXCEPT ![t] =
       [model |-> model, fitted |-> model \in fitted, version |-> version, date |-> date]]
  /\ file' = Torn
  /\ LET others == {u \in Threads : pc[u] = "dump"} IN
       clobbered' = IF others = {} THEN clobbered ELSE clobbered \cup others \cup {t}
  /\ Step(t, "dump")
  /\ UNCHANGED <<mode, made, memory, mine, target, predictVars, history>>

\* Mutant: the archive holds the version from before the training.
SavedBefore(t) == [payload[t] EXCEPT !.version = None]

Saved(t) == payload[t]

\* Two dumps that overlap may leave a file of both.
EndSave(t) ==
  /\ pc[t] = "dump"
  /\ file' \in {Saved(t)} \cup (IF t \in clobbered THEN {Torn} ELSE {})
  /\ payload' = [payload EXCEPT ![t] = None]
  /\ clobbered' = clobbered \ {t}
  /\ Step(t, "answer")
  /\ UNCHANGED <<mode, made, memory, mine, target, predictVars, history>>

\* The dump raises, for want of space: what it has written stays.
SaveFails(t) ==
  /\ t \in Trainers /\ pc[t] = "dump"
  /\ file' = Torn
  /\ payload' = [payload EXCEPT ![t] = None]
  /\ clobbered' = clobbered \ {t}
  /\ Raise(t)
  /\ UNCHANGED <<mode, made, memory, target, predictVars, history>>

\* The request is answered with the attributes as they are; start-up is over.
Answer(t) ==
  /\ pc[t] = "answer"
  /\ IF t = Boot THEN mode' = "up" /\ UNCHANGED retrained
     ELSE retrained' = retrained \cup {version} /\ UNCHANGED mode
  /\ UNCHANGED <<overlap, quiet, unfit, atStart>>
  /\ mine' = [mine EXCEPT ![t] = None]
  /\ Step(t, "idle")
  /\ UNCHANGED <<made, memory, file, target, payload, clobbered, predictVars>>

-----------------------------------------------------------------------------
(* predict.                                                                  *)

\* A thread reads self._model to score with it.
Predict(p) ==
  /\ mode = "up"
  /\ ppc[p] = "idle"
  /\ scorer' = [scorer EXCEPT ![p] = model]
  /\ ppc' = [ppc EXCEPT ![p] = "score"]
  /\ quiet' = IF AtRest THEN quiet \cup {p} ELSE quiet
  /\ UNCHANGED <<mode, made, memory, file, trainVars, result, retrained, overlap, unfit, atStart>>

\* A forest that is not fitted raises NotFittedError, which is answered 500.
Score(p) ==
  /\ ppc[p] = "score"
  /\ ppc' = [ppc EXCEPT ![p] = IF scorer[p] \in fitted THEN "return" ELSE "failed"]
  /\ UNCHANGED <<mode, made, memory, file, trainVars, scorer, result, history>>

\* The version is read when the result is put together.
Return(p) ==
  /\ ppc[p] = "return"
  /\ result' = [result EXCEPT ![p] = [model |-> scorer[p], version |-> version]]
  /\ ppc' = [ppc EXCEPT ![p] = "done"]
  /\ UNCHANGED <<mode, made, memory, file, trainVars, scorer, history>>

Reply(p) ==
  /\ ppc[p] \in {"done", "failed"}
  /\ ppc' = [ppc EXCEPT ![p] = "idle"]
  /\ scorer' = [scorer EXCEPT ![p] = None]
  /\ result' = [result EXCEPT ![p] = None]
  /\ quiet' = quiet \ {p}
  /\ UNCHANGED <<mode, made, memory, file, trainVars, retrained, overlap, unfit, atStart>>

-----------------------------------------------------------------------------

\* The process dies and is started again; the file stays as it is, or, when the
\* container is replaced, is gone.
Crash ==
  /\ mode # "down"
  /\ mode' = "down"
  /\ fitted' = {} /\ model' = None /\ date' = None /\ version' = None
  /\ file' \in {file, None}
  /\ retrained' = IF file' = None THEN {} ELSE retrained
  /\ pc' = [t \in Threads |-> "idle"]
  /\ mine' = [t \in Threads |-> None]
  /\ target' = [t \in Threads |-> None]
  /\ payload' = [t \in Threads |-> None]
  /\ clobbered' = {}
  /\ ppc' = [p \in Predictors |-> "idle"]
  /\ scorer' = [p \in Predictors |-> None]
  /\ result' = [p \in Predictors |-> None]
  /\ quiet' = {}
  /\ UNCHANGED <<made, overlap, unfit, atStart>>

Train(t) ==
  \/ Retrain(t) \/ Create(t) \/ BeginFit(t) \/ EndFit(t) \/ SetDate(t) \/ SetVersion(t)
  \/ BeginSave(t) \/ EndSave(t) \/ Answer(t) \/ FitFails(t) \/ SaveFails(t)

Next ==
  \/ BootLoad \/ BootTrain \/ BootFails \/ Crash
  \/ \E t \in Threads : Train(t)
  \/ \E p \in Predictors : Predict(p) \/ Score(p) \/ Return(p) \/ Reply(p)

Spec == Init /\ [][Next]_vars

-----------------------------------------------------------------------------

\* Every variable has its type, and a service that is up has a model with a
\* version.
TypeOK ==
  /\ mode \in {"down", "starting", "up"}
  /\ made \in 0 .. MaxModel
  /\ fitted \subseteq Models
  /\ {model, date, version} \subseteq Models \cup {None}
  /\ mode = "up" => None \notin {model, date, version}
  /\ file \in Archive \cup {None, Torn}
  /\ pc \in [Threads -> {"idle", "create", "fit", "fitting", "date", "version", "save", "dump", "answer"}]
  /\ mine \in [Threads -> Models \cup {None}]
  /\ target \in [Threads -> Models \cup {None}]
  /\ payload \in [Threads -> Archive \cup {None}]
  /\ clobbered \subseteq Threads
  /\ ppc \in [Predictors -> {"idle", "score", "return", "done", "failed"}]
  /\ scorer \in [Predictors -> Models \cup {None}]
  /\ result \in [Predictors -> Result \cup {None}]
  /\ retrained \subseteq Models
  /\ overlap \in BOOLEAN
  /\ quiet \subseteq {p \in Predictors : ppc[p] # "idle"}
  /\ unfit \subseteq Models
  /\ atStart \in 0 .. made

\* As long as trainings follow each other, the file holds a fitted model under
\* its own version, unless it is being written: a restart gets back what was
\* trained.
FileMatches ==
  ~overlap /\ file \notin {None, Torn} =>
    file.fitted /\ file.version = file.model /\ file.date = file.model

\* A retraining that was answered survives a restart: the file, when it is whole
\* and trainings follow each other, holds the version that was reported or a
\* later one.
AnsweredIsSaved ==
  ~overlap /\ file \notin {None, Torn} => \A v \in retrained : v <= file.version

\* However trainings overlap, when none is between making a model and fitting it
\* the model this process made last is fitted, and predictions succeed, unless its
\* fit raised.
UsableAtRest ==
  (model # None /\ model > atStart /\ \A t \in Threads : pc[t] \notin {"fit", "fitting"})
    => model \in fitted \cup unfit

\* A prediction no training was under way with names the version of the model that
\* scored it, also after crashes and failed trainings, as long as trainings
\* followed each other.
VersionNamesScorer ==
  \A p \in quiet : ~overlap /\ result[p] # None => result[p].version = result[p].model
=============================================================================
