--------------------------- MODULE MCAnalysisStore ---------------------------
(* AnalysisStore with at most two processes and three files: app.py and     *)
(* app.ts, which share a module name and define a function run each, and    *)
(* test_app.py.  app.py imports test_app, and its run calls a function that *)
(* only app.ts defines; test_app.py imports app and holds test_run.         *)
EXTENDS AnalysisStore, TLC

CONSTANTS py, ts, test,         \* the files
          run, helper, testRun  \* the functions and the test

MCPlace  == py :> 1 @@ ts :> 2 @@ test :> 3
MCModule == py :> "app" @@ ts :> "app" @@ test :> "test_app"

(* Only app.ts comes and goes, or every file does. *)
MCContents     == py :> {1} @@ ts :> {0, 1} @@ test :> {1}
MCFreeContents == [f \in Files |-> {0, 1}]

Finds(contains, calls, imports) ==
  [contains |-> contains, calls |-> calls, imports |-> imports]

MCPresent ==
     py   :> Finds({<<py, run>>}, {<<run, helper>>}, {"test_app"})
  @@ ts   :> Finds({<<ts, run>>, <<ts, helper>>}, {}, {})
  @@ test :> Finds({<<test, testRun>>}, {}, {"app"})

MCSource ==
  [f \in Files |-> [v \in Versions |-> IF v = 1 THEN MCPresent[f] ELSE Finds({}, {}, {})]]

MCTested == {<<testRun, run>>}
=============================================================================
