----------------------- MODULE MCReferenceResolution ------------------------
(* Contents: `calls` has two calls of g in f and one of a name that nobody *)
(* defines; `callee` and `both` define g, and `callee` calls f.  `calls`   *)
(* and `callee` make more references than a batch holds, `calls` alone or  *)
(* with `both` as many.                                                    *)
EXTENDS ReferenceResolution, TLC

CONSTANTS f, g, lost, s1, s2, calls, callee, both

MCDefines == calls :> {f} @@ callee :> {g} @@ both :> {f, g}

Ref(from, name, site) == [from |-> from, name |-> name, site |-> site]

MCRefers ==
    calls  :> {Ref(f, g, s1), Ref(f, g, s2), Ref(f, lost, s1)} @@
    callee :> {Ref(g, f, s1)} @@
    both   :> {}

MCDispatch == {<<f, g>>}
=============================================================================
