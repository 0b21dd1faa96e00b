----------------------------- MODULE MCLintCache -----------------------------
(* Two files, one of them edited and deleted, two configurations, one scan  *)
(* at a time and two cache objects, one of which may be a dropped one.      *)
EXTENDS LintCache, TLC

CONSTANTS f1, f2, a, b, c, k1, k2, s1, c1, c2

MCFile == {f1, f2}
MCContent == {a, b, c}
MCTexts == (f1 :> {a, b, Gone}) @@ (f2 :> {c})
MCConfig == {k1, k2}
MCScan == {s1}
MCCache == {c1, c2}
Symmetric == {q @@ r @@ t : q \in Permutations(MCCache),
                            r \in Permutations(MCConfig), t \in Permutations({a, b})}
=============================================================================
