---------------------------- MODULE MCDiscovery ----------------------------
(***************************************************************************)
(* Identifiers of three bits and two places per bucket: p2, p3 and p4      *)
(* compete for the bucket of the far half, p3 and p4 come with the same    *)
(* onion, p1 has a bucket of its own and two onions.                       *)
(***************************************************************************)
EXTENDS Discovery

CONSTANTS o0, o1, o2, o4, o5, f1, f2

Self == <<0, 0, 0>>
p1 == <<0, 0, 1>>
p2 == <<1, 0, 0>>
p3 == <<1, 0, 1>>
p4 == <<1, 1, 0>>
Four == {p1, p2, p3, p4}
Hosted == <<1, 1, 1>>
Onions == (Self :> {o0}) @@ (p1 :> {o1, o5}) @@ (p2 :> {o2}) @@ (p3 :> {o4}) @@ (p4 :> {o4})
MCAnswers == {<<Record(Self, o0, "fresh"), Record(p4, o4, "fresh"), Record(p3, o4, "fresh")>>,
              <<Record(p2, o2, "expired"), Record(p1, o5, "fresh")>>}
MCFiles == {None, <<Record(p2, o2, "expired"), Record(p3, o4, "ancient")>>,
            <<Record(p2, o2, "fresh"), Record(p1, o1, "fresh")>>}
Lan == {p1}
MCTarget == (f1 :> p1) @@ (f2 :> p4)
MCEvents == ({Startup} :> 2) @@ ({Loop, Add} :> 2) @@ ({Loop} :> 3) @@ ({f1, f2} :> 1) @@ ({f1} :> 2)
=============================================================================
