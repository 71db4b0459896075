------------------------------ MODULE MCScardac ------------------------------
(***************************************************************************)
(* Instances of Scardac for TLC: archives of up to two days, indexed by an *)
(* earlier scan of an archive that has changed since, and the smallest     *)
(* archives with two streams and two workers.                              *)
(***************************************************************************)
EXTENDS Scardac

CONSTANTS s1, s2, w1, w2, a, b

Rec(from, to, kind) == [start |-> from, end |-> to, kind |-> kind]
File(records, mtime) == [records |-> records, mtime |-> mtime]

\* Records of the first day: none, one segment, a gap, a change of the kind, an
\* overlap, two that arrived in the wrong order, and three segments.
Day1 == {<<>>,
         <<Rec(1, 3, a), Rec(3, 5, a)>>,
         <<Rec(1, 3, a), Rec(4, 5, a)>>,
         <<Rec(1, 3, a), Rec(3, 5, b)>>,
         <<Rec(1, 4, a), Rec(3, 5, a)>>,
         <<Rec(3, 5, a), Rec(1, 3, a)>>,
         <<Rec(1, 2, a), Rec(3, 4, b), Rec(4, 5, a)>>}
\* Records of the second day: a continuation of the first, and a gap.
Day2 == {<<Rec(5, 7, a)>>, <<Rec(6, 7, a)>>}

Archives(mtime) ==
  {<<File(d, mtime)>> : d \in Day1}
    \cup {<<File(d, mtime), File(e, mtime)>> : d \in Day1, e \in Day2}

\* What an earlier scan has left in the database of files.
Scanned(files) ==
  LET segs == FoldLeft(LAMBDA all, f :
                IF all = <<>> THEN FileSegments(f.records, None)
                ELSE Front(all) \o FileSegments(f.records, Last(all)), <<>>, files)
      scan == FoldLeft(UpdateExtent, [EmptyScan EXCEPT !.updated = 1], segs)
  IN  [rows |-> ToSet(segs), attrs |-> scan.attrs,
       extent |-> IF segs = <<>> THEN None
                  ELSE [start |-> scan.start, end |-> scan.end,
                        updated |-> scan.updated, overflow |-> scan.overflow]]

Nothing == Scanned(<<>>)

Setup(files1, old1, files2, old2, threads) ==
  [archive |-> [s \in Streams |-> IF s = s1 THEN files1 ELSE files2],
   db |-> [s \in Streams |-> IF s = s1 THEN old1 ELSE old2],
   threads |-> threads]

\* The archive is the one of the earlier scan or has been written to since.
Rescans ==
  {Setup(files, Scanned(old), <<>>, Nothing, {w1}) :
     files \in {<<>>} \cup Archives(1) \cup Archives(2),
     old \in {<<>>} \cup Archives(1)}

One == <<File(<<Rec(1, 3, a)>>, 1)>>
Parallel ==
  {Setup(One, old1, One, old2, {w1, w2}) :
     old1 \in {Nothing, Scanned(One)}, old2 \in {Nothing, Scanned(One)}}

MCSetups == Rescans \cup Parallel
=============================================================================
