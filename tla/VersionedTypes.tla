--------------------------- MODULE VersionedTypes ---------------------------
(***************************************************************************)
(* The parameters and the pure part shared by the specifications of a V3   *)
(* collection. Data is abstracted to what the protocol tells apart: every  *)
(* keyword is the only one of its bucket, so the chunk that holds a bucket *)
(* is identified with its keyword and a manifest is a set of keywords.     *)
(***************************************************************************)
EXTENDS Naturals

CONSTANTS
  Op,            \* operation identifiers; a changing operation's version is its identifier
  Keyword,       \* normalized keywords
  Genesis,       \* the version that is active at first
  InitialWords,  \* its keywords: none in a new collection
  Requests,      \* the calls an application may make, a subset of RequestType
  NoRequest      \* stands for the call of an operation that has not started

RequestType == [mode : {"add", "remove", "replace"}, words : SUBSET Keyword]

ASSUME RequestAssumption ==
  /\ Genesis \notin Op
  /\ InitialWords \subseteq Keyword
  /\ Requests \subseteq RequestType
  /\ NoRequest \notin Requests

Version == Op \cup {Genesis}

(* The dictionary a call makes of the dictionary it is applied to. *)
Apply(r, words) ==
  IF r.mode = "add" THEN words \cup r.words
  ELSE IF r.mode = "remove" THEN words \ r.words
  ELSE r.words
=============================================================================
