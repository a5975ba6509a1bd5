------------------------------ MODULE KeyPaths ------------------------------
(***************************************************************************)
(* Which keys of the source are copied, and where to.  The copier, the     *)
(* planner and the destination check use these operators alike.            *)
(*                                                                         *)
(* A string is a sequence of tokens: names and Slash.  "foo/a" is          *)
(* <<"foo", "/", "a">> and "foobar" is <<"foo", "bar">>, so that a string  *)
(* prefix need not end at a segment.  The --exclude globs are the set of   *)
(* keys they match.                                                        *)
(***************************************************************************)
EXTENDS Integers, Sequences, FiniteSets, SequencesExt

Slash == "/"

ends_with_slash(s) == s # <<>> /\ s[Len(s)] = Slash

\* str::strip_prefix, for a string that starts with p.
strip_prefix(s, p) == SubSeq(s, Len(p) + 1, Len(s))

\* str::trim_start_matches('/')
trim_slashes(s) ==
  LET names == {i \in DOMAIN s : s[i] # Slash}
  IN  IF names = {} THEN <<>> ELSE SubSeq(s, Min(names), Len(s))

-----------------------------------------------------------------------------
(* Operators named Bad... are faulty variants of the definition after them. *)

key_belongs_to_prefix(key, prefix) ==
  \/ prefix = <<>>
  \/ IsPrefix(prefix, key) /\ \/ ends_with_slash(prefix)
                              \/ key = prefix
                              \/ strip_prefix(key, prefix)[1] = Slash

\* Splitting the key at its slashes gives an empty segment.
HasEmptySegment(key) ==
  /\ key # <<>>
  /\ \/ key[1] = Slash \/ ends_with_slash(key)
     \/ \E i \in 1..Len(key) - 1 : key[i] = Slash /\ key[i + 1] = Slash

filter_key(key, prefix, exclude) ==
  CASE ~key_belongs_to_prefix(key, prefix) -> "skip"
    [] key_belongs_to_prefix(key, prefix) /\ HasEmptySegment(key) -> "invalid"
    [] OTHER -> IF key \in exclude THEN "skip" ELSE "keep"

BadRelativeKeyPath(key, prefix) ==         \* no name left for a single-object source
  IF IsPrefix(prefix, key) THEN trim_slashes(strip_prefix(key, prefix)) ELSE key
relative_key_path(key, prefix) ==
  IF prefix = <<>> \/ ~IsPrefix(prefix, key) THEN key
  ELSE LET rest == strip_prefix(key, prefix)
       IN  IF ends_with_slash(prefix) THEN rest
           ELSE IF rest # <<>> /\ rest[1] = Slash THEN trim_slashes(rest) ELSE key

destination_path(prefix, relative_path) ==
  IF prefix = <<>> THEN relative_path ELSE prefix \o <<Slash>> \o relative_path

\* verify.rs: the key a destination path came from, or NoKey.
NoKey == <<Slash, Slash>>
source_key(dest_path, dest_prefix, src_prefix) ==
  LET below == destination_path(dest_prefix, <<>>)
      rel   == strip_prefix(dest_path, below)
  IN  IF ~IsPrefix(below, dest_path) THEN NoKey
      ELSE IF rel = src_prefix /\ ~ends_with_slash(src_prefix) THEN rel
      ELSE IF src_prefix = <<>> \/ ends_with_slash(src_prefix) THEN src_prefix \o rel
      ELSE src_prefix \o <<Slash>> \o rel

\* --skip-existing: `sizes` maps the paths the bucket holds to their sizes.
BadIsExisting(sizes, path, size) == path \in DOMAIN sizes       \* of any size
is_existing(sizes, path, size)   == path \in DOMAIN sizes /\ sizes[path] = size
=============================================================================
