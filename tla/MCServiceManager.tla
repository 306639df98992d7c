-------------------------- MODULE MCServiceManager --------------------------
(***************************************************************************)
(* Small instances of ServiceManager for TLC.                              *)
(***************************************************************************)
EXTENDS ServiceManagerInvariants, TLC

CONSTANTS db, cache, api, elsewhere

MCServices == {db, cache, api}

\* A diamond's lower half with a name that is not in this process, a chain,
\* and a cycle.
Diamond == (db :> {}) @@ (cache :> {}) @@ (api :> {db, cache, elsewhere})
Chain == (db :> {}) @@ (cache :> {db}) @@ (api :> {cache})
Cycle == (db :> {}) @@ (cache :> {db, api}) @@ (api :> {cache})
MCGraphs == {Diamond, Chain, Cycle}

MCMaxRetries == (db :> 1) @@ (cache :> 0) @@ (api :> 0)

=============================================================================
