----------------------------- MODULE MCListing ------------------------------
(* Listing for TLC.                                                        *)
EXTENDS Listing

\* "foo" < "foo-" < "foo/" < "foo/a" < "foo/b" < "foo/foo" < "foobar": "-" sorts
\* before "/" and "/" before letters.
MCUniverse == << <<"foo">>, <<"foo", "-">>, <<"foo", "/">>, <<"foo", "/", "a">>,
                 <<"foo", "/", "b">>, <<"foo", "/", "foo">>, <<"foo", "bar">> >>

Cmd(p, d, s, e, l, skip, x) ==
  [prefix |-> p, dest |-> d, start_after |-> s, stop_at |-> e, limit |-> l, skip |-> skip,
   exclude |-> x]

Foo   == <<"foo">>
FooS  == <<"foo", "/">>
D     == <<"d">>
MCSettings ==
  {Cmd(Foo, D, 0, e, 2, TRUE, {}) : e \in {0, 5}}
  \cup {Cmd(Foo, <<>>, 0, e, l, FALSE, {}) : e \in {0, 5}, l \in {0, 2}}
  \cup {Cmd(FooS, D, s, 0, 1, k, {<<"foo", "/", "b">>}) : s \in {0, 4}, k \in BOOLEAN}
  \cup {Cmd(<<>>, <<>>, 2, e, 0, FALSE, {}) : e \in {0, 5}}

MCSources == {[k \in Keys |-> IF k = 4 THEN 2 ELSE 1],
              [k \in Keys |-> IF k \in {2, 5} THEN Absent ELSE 1]}
=============================================================================
