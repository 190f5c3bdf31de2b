-------------------------- MODULE MCRunnerProtocol --------------------------
(* Small instances of RunnerProtocol for TLC. *)
EXTENDS RunnerProtocol, TLC

MCSeven == <<"route", "plan", "gather", "act", "verify", "summarize", "learn">>
MCThree == <<"route", "gather", "learn">>

MCWorkers == {"c1", "b1", "l1"}
MCOwnerOf == "c1" :> "container-runner" @@ "b1" :> "browser-worker"
               @@ "l1" :> "learning-worker"
MCWorkersPair == {"c1", "c2", "b1", "l1"}
MCOwnerOfPair == "c2" :> "container-runner" @@ MCOwnerOf

\* Two that may drive a browser.
MCWorkersBrowser == {"c1", "b1", "b2", "l1"}
MCOwnerOfBrowser == "b2" :> "browser-worker" @@ MCOwnerOf

MCManifestBrowser == [w \in MCWorkersBrowser |-> TRUE]
MCManifestPair == [w \in MCWorkersPair |-> TRUE]
MCHasManifest == [w \in MCWorkers |-> TRUE]
=============================================================================
