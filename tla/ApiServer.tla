------------------------------ MODULE ApiServer ------------------------------
(***************************************************************************)
(* What the agent relies on from a Kubernetes API server and from the      *)
(* watch caches behind its clients (external: neither is under src/).      *)
(*                                                                         *)
(* An object is the sequence of the versions it has had.  A                *)
(* resourceVersion is a position in that sequence, and so is a watch       *)
(* cache: a cached object is the version at the position the watch has     *)
(* reached, which may be any number of versions behind the current one.    *)
(***************************************************************************)
EXTENDS Integers, Sequences

\* The version a live read returns.
Current(log) == log[Len(log)]

\* Optimistic concurrency: an Update that carries resourceVersion rv is
\* accepted only when no version was written since; otherwise it fails with a
\* Conflict, or with NotFound when the object is gone.
UpToDate(log, rv) == rv = Len(log)

\* The server stores a new version, unless the write changes nothing.
Store(log, v) == IF v = Current(log) THEN log ELSE Append(log, v)

\* Watch events are delivered in order, one version at a time.
Behind(log, pos) == pos < Len(log)
=============================================================================
