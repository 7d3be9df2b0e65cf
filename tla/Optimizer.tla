------------------------------ MODULE Optimizer -----------------------------
(***************************************************************************)
(* optimizer.GridSearch and optimizer.RandomSearch: the parameter sets of  *)
(* a search, and the goroutines that evaluate them, at most `parallelism`  *)
(* at a time. Both searches run their evaluations with the same code.      *)
(***************************************************************************)
EXTENDS Integers, Sequences, FiniteSets, SequencesExt, TLC

CONSTANTS Parameters,     \* sequence of [name, type, min, max, step, options]
          MaxIterations, Parallelism,
          Scores,         \* values of the target metric an evaluation may find
          RandomSearches, \* parameter sets a random search may draw
          Maximize

\* With a parallelism of 0, which Config.WithParallelism does not refuse, the
\* semaphore has no place and a search waits for ever at its first evaluation.
ASSUME OptimizerAssumption ==
  /\ MaxIterations \in Nat \ {0} /\ Parallelism \in Nat \ {0}
  /\ Maximize \in BOOLEAN /\ Scores \subseteq Int

VARIABLES search, sets,        \* the kind of search and what it will evaluate
          dispatched, main,    \* runEvaluations' loop
          worker,              \* a goroutine per dispatched parameter set
          semaphore, wg, errCh,
          results, cancelled,
          outcome              \* what Optimize returned, and the sorted results

optVars == <<search, sets, dispatched, main, worker, semaphore, wg, errCh,
             results, cancelled, outcome>>

NotReturned == [status |-> "none", results |-> <<>>]

-----------------------------------------------------------------------------
(* Parameter sets *)

\* generateIntValues, generateFloatValues: min, min + step, ... up to max.
RangeValues(param) ==
  [k \in 1..((param.max - param.min) \div param.step + 1) |-> param.min + (k - 1) * param.step]

ParameterValues(param) ==
  IF param.type \in {"int", "float"} THEN RangeValues(param) ELSE param.options

\* Every set so far with every value of one more parameter.
Extended(partial, param) ==
  FlattenSeq([i \in DOMAIN partial |->
    [j \in DOMAIN ParameterValues(param) |->
      Append(partial[i], ParameterValues(param)[j])]])

\* generateParameterSets: a set is the sequence of its values, in the order of
\* the parameters.
GridSets == FoldLeft(Extended, << <<>> >>, Parameters)

ASSUME GridAssumption == GridSets \in Seq(Seq(Int))

Limited(all) == SubSeq(all, 1, IF Len(all) > MaxIterations THEN MaxIterations ELSE Len(all))

\* generateRandomValue: any value of the range, whatever its step.
RandomValues(param) ==
  CASE param.type \in {"int", "float"} -> IF param.min >= param.max THEN {param.min}
                                          ELSE param.min..param.max
    [] OTHER -> Range(param.options)

RandomSets == [1..MaxIterations -> RandomSearches]

\* ValidateParameterSet and the bounds of the definitions.
Valid(set) ==
  /\ Len(set) = Len(Parameters)
  /\ \A k \in DOMAIN set : set[k] \in RandomValues(Parameters[k])

OptInit ==
  /\ \/ search = "grid" /\ sets = Limited(GridSets)
     \/ search = "random" /\ sets \in {s \in RandomSets : \A i \in DOMAIN s : Valid(s[i])}
  /\ dispatched = 0 /\ main = "loop"
  /\ worker = [i \in DOMAIN sets |-> "none"]
  /\ semaphore = 0 /\ wg = 0 /\ errCh = 0
  /\ results = <<>> /\ cancelled = FALSE
  /\ outcome = NotReturned

-----------------------------------------------------------------------------
(* runEvaluations *)

\* The deferred return of the search: an error discards the results.
Return(status) ==
  /\ main' = "returned"
  /\ outcome' = [NotReturned EXCEPT !.status = status]

\* The select at the head of the loop takes any case that is ready.
SeesCancel ==
  /\ main = "loop" /\ dispatched < Len(sets) /\ cancelled
  /\ Return("cancelled")
  /\ UNCHANGED <<search, sets, dispatched, worker, semaphore, wg, errCh, results, cancelled>>

SeesError ==
  /\ main = "loop" /\ dispatched < Len(sets) /\ errCh = 1
  /\ errCh' = 0
  /\ Return("error")
  /\ UNCHANGED <<search, sets, dispatched, worker, semaphore, wg, results, cancelled>>

Continues ==
  /\ main = "loop" /\ dispatched < Len(sets) /\ ~cancelled /\ errCh = 0
  /\ wg' = wg + 1
  /\ main' = "acquire"
  /\ UNCHANGED <<search, sets, dispatched, worker, semaphore, errCh, results, cancelled, outcome>>

Room == semaphore < Parallelism

Dispatch ==
  /\ main = "acquire" /\ Room
  /\ semaphore' = semaphore + 1
  /\ dispatched' = dispatched + 1
  /\ worker' = [worker EXCEPT ![dispatched'] = "evaluating"]
  /\ main' = "loop"
  /\ UNCHANGED <<search, sets, wg, errCh, results, cancelled, outcome>>

Better(a, b) == IF Maximize THEN a.score > b.score ELSE a.score < b.score

\* ResultSorter; the order among equal scores is left open by sort.Sort.
Sorted(rs) == SortSeq(rs, Better)

\* BUG: what is left in errCh is not looked at.
NoLateError == TRUE

ErrorFree == errCh = 0

\* wg.Wait, the last look at errCh, and the sorting in Optimize.
WaitsForAll ==
  /\ main = "loop" /\ dispatched = Len(sets) /\ wg = 0
  /\ main' = "returned"
  /\ IF ErrorFree
     THEN outcome' = [status |-> "ok", results |-> Sorted(results)]
     ELSE outcome' = [NotReturned EXCEPT !.status = "error"]
  /\ errCh' = 0
  /\ UNCHANGED <<search, sets, dispatched, worker, semaphore, wg, results, cancelled>>

-----------------------------------------------------------------------------
(* The goroutine of one parameter set *)

Succeeds(i) ==
  /\ worker[i] = "evaluating"
  /\ \E score \in Scores : results' = Append(results, [set |-> i, score |-> score])
  /\ worker' = [worker EXCEPT ![i] = "evaluated"]
  /\ UNCHANGED <<search, sets, dispatched, main, semaphore, wg, errCh, cancelled, outcome>>

Fails(i) ==
  /\ worker[i] = "evaluating"
  /\ worker' = [worker EXCEPT ![i] = "failed"]
  /\ UNCHANGED <<search, sets, dispatched, main, semaphore, wg, errCh, results, cancelled, outcome>>

\* BUG: the error is sent without a default case.
BlockingSend(i) ==
  /\ worker[i] = "failed" /\ errCh = 0
  /\ errCh' = 1
  /\ worker' = [worker EXCEPT ![i] = "reported"]
  /\ UNCHANGED <<search, sets, dispatched, main, semaphore, wg, results, cancelled, outcome>>

\* The error is kept when the channel has room for it and dropped otherwise.
SendsError(i) ==
  /\ worker[i] = "failed"
  /\ errCh' = 1
  /\ worker' = [worker EXCEPT ![i] = "reported"]
  /\ UNCHANGED <<search, sets, dispatched, main, semaphore, wg, results, cancelled, outcome>>

\* The deferred calls, last one first.
Releases(i) ==
  /\ worker[i] \in {"evaluated", "reported"}
  /\ semaphore' = semaphore - 1
  /\ worker' = [worker EXCEPT ![i] = IF @ = "reported" THEN "reported, released" ELSE "released"]
  /\ UNCHANGED <<search, sets, dispatched, main, wg, errCh, results, cancelled, outcome>>

Done(i) ==
  /\ worker[i] \in {"released", "reported, released"}
  /\ wg' = wg - 1
  /\ worker' = [worker EXCEPT ![i] = IF @ = "released" THEN "done" ELSE "reported, done"]
  /\ UNCHANGED <<search, sets, dispatched, main, semaphore, errCh, results, cancelled, outcome>>

Cancel ==
  /\ ~cancelled /\ main # "returned"
  /\ cancelled' = TRUE
  /\ UNCHANGED <<search, sets, dispatched, main, worker, semaphore, wg, errCh, results, outcome>>

Evaluates(i) == Succeeds(i) \/ Fails(i) \/ SendsError(i)

OptNext ==
  \/ SeesCancel \/ SeesError \/ Continues \/ Dispatch \/ WaitsForAll
  \/ \E i \in DOMAIN sets : Evaluates(i) \/ Releases(i) \/ Done(i)
  \/ Cancel

\* The caller and every goroutine go on when they can; a backtest ends (module
\* CandleFlow), with a result or an error.
OptSpec ==
  /\ OptInit /\ [][OptNext]_optVars
  /\ WF_optVars(SeesCancel \/ SeesError \/ Continues \/ Dispatch \/ WaitsForAll)
  /\ \A i \in 1..MaxIterations :
       WF_optVars(i \in DOMAIN sets /\ (Evaluates(i) \/ Releases(i) \/ Done(i)))

-----------------------------------------------------------------------------
(* Properties *)

Failed == {i \in DOMAIN sets : worker[i] \in {"failed", "reported", "reported, released", "reported, done"}}
Ended == {"none", "done", "reported, done"}

\* A search that reports success found and sorted one result for every
\* parameter set, and no evaluation of it failed: a failure cannot be lost,
\* neither when several fail at once nor when the last one fails after the loop
\* has ended.
SuccessIsComplete ==
  outcome.status = "ok" =>
    /\ Failed = {}
    /\ \A i \in DOMAIN sets : Cardinality({k \in DOMAIN results : results[k].set = i}) = 1
    /\ outcome.results = Sorted(results)

\* A search returns, and afterwards no goroutine of it is left: neither the
\* early return nor a full error channel blocks one.
NothingLeftBehind ==
  <>[](outcome.status # "none" /\ \A i \in DOMAIN sets : worker[i] \in Ended)
=============================================================================
