---------------------------- MODULE PathNormalForm ----------------------------
(****************************************************************************)
(* What normalizing a path means, by components and not by a scan: a path   *)
(* is names between separators; empty names and "." are dropped, ".." takes *)
(* away the name before it, and a path that ends in none of its names ends  *)
(* in a separator.                                                          *)
(****************************************************************************)
EXTENDS SequencesExt

CONSTANTS SEP, DOT      \* the characters '/' and '.'

Self   == <<DOT>>
Parent == <<DOT, DOT>>

\* The components kept so far, the one being read, and whether a parent
\* reference found nothing to take away (above) or took the first component
\* away (emptied).
Nothing == [kept |-> <<>>, name |-> <<>>, above |-> FALSE, emptied |-> FALSE]

\* A component has been read to its end.
Close(r) ==
    CASE r.name \in {<<>>, Self} -> [r EXCEPT !.name = <<>>]
      [] r.name = Parent /\ r.kept = <<>> -> [r EXCEPT !.name = <<>>, !.above = TRUE]
      [] r.name = Parent /\ r.kept # <<>> ->
             [r EXCEPT !.name = <<>>, !.kept = Front(@), !.emptied = @ \/ Len(r.kept) = 1]
      [] OTHER -> [r EXCEPT !.name = <<>>, !.kept = Append(@, r.name)]

ReadChar(r, char) == IF char = SEP THEN Close(r) ELSE [r EXCEPT !.name = Append(@, char)]

\* What has been read after each number of characters of the path.
Reading(path) ==
    LET read[n \in 0 .. Len(path)] ==
            IF n = 0 THEN Nothing ELSE ReadChar(read[n - 1], path[n])
    IN  read

Read(path)    == Reading(path)[Len(path)]
Resolve(path) == Close(Read(path))

Absolute(path)   == path # <<>> /\ path[1] = SEP
EndsInName(path) == Read(path).name \notin {<<>>, Self, Parent}

\* The path has a parent reference with no component before it.
ClimbsAboveRoot(path) == Resolve(path).above

\* The names, each with a separator behind it.
Terminated(names) == FlattenSeq([i \in DOMAIN names |-> Append(names[i], SEP)])

NormalForm(path) ==
    LET names == Terminated(Resolve(path).kept)
        whole == IF Absolute(path) THEN <<SEP>> \o names ELSE names
    IN  IF EndsInName(path) THEN Front(whole) ELSE whole
=============================================================================
