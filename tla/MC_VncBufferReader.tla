------------------------ MODULE MC_VncBufferReader ------------------------
(* Five packages, one of each create() call: a negative number, and pushes *)
(* that name their URL but no path, nothing as they are a text, their path *)
(* but no URL, and nothing at all.  Read in pieces of 1 to 38 bytes: a     *)
(* piece may end inside any field, hold the rest of a package and the      *)
(* start of the next, or a whole package and a bit of both sides.  The     *)
(* clock has one value: the queue's deadlines are the business of          *)
(* AlarmQueue's run.                                                       *)
EXTENDS PackagePath, TLC

MCUsecs == {0}

MCCrc32(raw) == FoldLeft(LAMBDA v, b : (v + b) % Word, 0, raw)

MCSent == <<
  CreateInt(3, 40, 23, 700, -4),
  CreateJson(3, 5, 22, 8, <<Url, 7, Size, 2>>),
  CreateText(3, 5, 22, 9, <<5, 1, 4>>),
  CreateMap(3, 5, 22, 7, Path :> 8 @@ Size :> 4),
  Create(3, 5, 22, 0) >>

MCStart == [k \in 0..5 |-> <<0, 34, 70, 105, 141, 173>>[k + 1]]
=============================================================================
