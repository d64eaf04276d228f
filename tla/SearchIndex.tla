---------------------------- MODULE SearchIndex ----------------------------
(***************************************************************************)
(* What the search index promises to whoever searches it, however many     *)
(* indexers feed it and wherever they die: at any moment a space finds     *)
(* passages of the notes as they are stored now and nothing else; a note   *)
(* is written only when its content changes, and loses what was found of   *)
(* it; no other note's passages are lost with it.                          *)
(*                                                                         *)
(* Indexing implements this module (Indexing!ImplementsSearchIndex), and   *)
(* Asking searches it.                                                     *)
(***************************************************************************)
EXTENDS Naturals, Sequences

CONSTANTS
    Files,      \* vault-relative paths
    Contents,   \* what the bytes of a file may be
    None,       \* no such note
    Spaces,     \* embedding spaces
    Cut         \* the chunks of a content

VARIABLES
    stored,     \* the content each note is stored with
    found       \* the passages a search of each space ranks

vars == <<stored, found>>

Init ==
    /\ stored = [f \in Files |-> None]
    /\ found = [s \in Spaces |-> {}]

\* A row of the search: which chunk of which note, and the text its vector is of.
PassagesOf(f, c) ==
    {[note |-> f, index |-> i - 1, of |-> Cut[c][i]] : i \in DOMAIN Cut[c]}

Passages == UNION {PassagesOf(f, stored[f]) : f \in {g \in Files : stored[g] # None}}

\* What a search still finds once the chunks of the notes F are deleted.
FoundUndeleted(F) == found

FoundWithout(F) == [s \in Spaces |-> {h \in found[s] : h.note \notin F}]

\* SaveNoteWithChunks of a changed note.
SaveNote(f, c) ==
    /\ stored[f] # c
    /\ stored' = [stored EXCEPT ![f] = c]
    /\ found' = FoundWithout({f})

\* DeleteMissingNotes.
PruneNotes(F) ==
    /\ stored' = [f \in Files |-> IF f \in F THEN None ELSE stored[f]]
    /\ found' = FoundWithout(F)

\* SaveEmbeddings: a vector never belongs to a text its note no longer has.
AddVectors(s, hits) ==
    /\ hits \subseteq Passages
    /\ found' = [found EXCEPT ![s] = @ \cup hits]
    /\ UNCHANGED stored

Next ==
    \/ \E f \in Files, c \in Contents : SaveNote(f, c)
    \/ \E F \in SUBSET Files : PruneNotes(F)
    \/ \E s \in Spaces : \E hits \in SUBSET Passages : AddVectors(s, hits)

Spec == Init /\ [][Next]_vars
=============================================================================
