-------------------------------- MODULE Files --------------------------------
(***************************************************************************)
(* Files attached to mails and deals: rows of TheFile that may share a     *)
(* stored file, and the stored files (common/models.py TheFile,            *)
(* common/utils/copy_files.py, crm/site/crmemailadmin.py save_related,     *)
(* common/site/basemodeladmin.py delete_model).                            *)
(*                                                                         *)
(* A stored file is removed at once, a row when its transaction ends.      *)
(***************************************************************************)
EXTENDS Integers, FiniteSets, Sequences, SequencesExt

CONSTANTS Paths,       \* stored files
          Alike,       \* <<p, q>>: the name of p is found in the path of q
          DealFiles    \* the files of the deal at first

ASSUME FilesAssumption ==
    /\ IsFiniteSet(Paths) /\ DealFiles \subseteq Paths
    /\ Alike \subseteq Paths \X Paths /\ \A p \in Paths : <<p, p>> \in Alike

VARIABLES
    files,   \* rows of TheFile: whose, the stored file, the flag "attached to
             \* the deal", deleted or not
    disk,    \* stored files
    torn     \* history: stored files removed by a transaction that failed, by
             \* one that deleted a row again, or before a row of it came

storage == <<files, disk, torn>>

TheDeal == <<"deal", 0>>
Mail(m) == <<"mail", m>>
File(of, p, on) == [of |-> of, path |-> p, on |-> on, live |-> TRUE]
Naming(p) == {i \in DOMAIN files : files[i].live /\ files[i].path = p}
FilesOf(of) == {i \in DOMAIN files : files[i].live /\ files[i].of = of}
PathsOf(S) == {files[i].path : i \in S}

\* The stored files that go with the rows D: the row is the last that names its
\* file, or was deleted meanwhile and another is the last.
Again(D) == {i \in D : ~files[i].live}
Removed(D) == {p \in PathsOf(D) :
                 \/ Naming(p) # {} /\ Naming(p) \subseteq D
                 \/ Cardinality(Naming(p)) = 1 /\ p \in PathsOf(Again(D))}
\* TheFile.delete of rows D, the stored files so far.
Delete(D) == /\ disk' = disk \ Removed(D)
             /\ torn' = torn \cup (Removed(D) \cap PathsOf(Again(D)))
\* The transaction that removed them fails.
Undo(D) == torn' = torn \cup PathsOf(D)
\* New rows, whose files may be gone.
Insert(rows) == /\ files' = rows
                /\ torn' = torn \cup ({files'[i].path : i \in {x \in DOMAIN rows :
                                          x \notin DOMAIN files \/ ~files[x].live}
                                        \cap {x \in DOMAIN rows : rows[x].live}} \ disk)

\* The rows after a form of a mail that deletes rows D and ticks, or unticks, the
\* box "attach to the deal" of rows T, as they were when it loaded them: a row
\* that was deleted meanwhile comes back.
Without(D, rows) == [i \in DOMAIN rows |-> IF i \in D THEN [rows[i] EXCEPT !.live = FALSE]
                                           ELSE rows[i]]
\* Mutant: the row of the mail becomes the deal's.
Mutant_Boxes(T, on, rows) == [i \in DOMAIN rows |-> IF i \in T
                      THEN [rows[i] EXCEPT !.on = on, !.live = TRUE,
                                           !.of = IF on THEN TheDeal ELSE @] ELSE rows[i]]
Boxes(T, on, rows) == [i \in DOMAIN rows |-> IF i \in T
                      THEN [rows[i] EXCEPT !.on = on, !.live = TRUE] ELSE rows[i]]
                      \o IF on THEN SetToSeq({File(TheDeal, rows[i].path, TRUE) : i \in T})
                         ELSE <<>>
\* Unticked: the deal loses the first of its rows with a matching name.
Matching(i) == {j \in FilesOf(TheDeal) : <<files[j].path, files[i].path>> \in Alike}
Lost(T, on) == {CHOOSE j \in Matching(i) : \A k \in Matching(i) : j <= k :
                  i \in {x \in T : ~on /\ Matching(x) # {}}}
=============================================================================
