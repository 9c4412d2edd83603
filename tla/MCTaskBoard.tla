----------------------------- MODULE MCTaskBoard -----------------------------
(* TaskBoard on a small instance for TLC, with TaskInput for its form. *)
EXTENDS TaskBoard, TaskInput, TLC

CONSTANTS t1, t2, null, blank, word, long

MCSymmetry == Permutations(Tasks)

\* "long" is as long as a description may be, in letters of three bytes.
MCLength == blank :> 0 @@ word :> 1 @@ long :> 3
MCBytes == blank :> 0 @@ word :> 1 @@ long :> 9

\* Minutes of two instants; minute 1 is in the hour that is repeated, as instants 4 and 5.
MCShown == 0 :> 0 @@ 1 :> 0 @@ 2 :> 1 @@ 3 :> 1 @@ 4 :> 1 @@ 5 :> 1 @@ 6 :> 2
MCMeant == 0 :> 0 @@ 1 :> 2 @@ 2 :> 6

MCTexts == [pad : 0 .. 2, body : Bodies]
MCForms == [title : MCTexts, description : MCTexts, due : Minutes \cup {Nothing},
            status : {"PENDING"}]
MCPayloads == [title : MCTexts, description : MCTexts \cup {Nothing},
               due : Instants \cup {Nothing}, status : {"PENDING"}]

\* The theorems of TaskBoardProofs about the form, on these texts and dates.
ASSUME FormAgrees == \A f \in MCForms :
    FormAccepts(f) /\ (f.due # Nothing => Meant[f.due] <= LastIso)
        => SchemaAccepts(Payload(f)) /\ Stored(Payload(f)) = Payload(f)
ASSUME FormOpens == \A p \in MCPayloads :
    SchemaAccepts(p) => (FormAccepts(FormOf(Stored(p))) <=> ~IsBlank(p.title))
ASSUME SavingSettles == \A p \in MCPayloads :
    LET again == Resaved(Stored(p)) IN
    /\ again.title = Trim(p.title) /\ (p.due # Nothing => again.due <= p.due)
    /\ Resaved(again) = again

\* What is not so: a blank title is refused by the schemas, a due date survives a save,
\* and what the form accepts fits into the body the API reads.
ASSUME BlankTitlesPass == \E p \in MCPayloads : SchemaAccepts(p) /\ Size(Stored(p).title) = 0
ASSUME DatesMove == \E p \in MCPayloads : p.due # Nothing /\ Resaved(Stored(p)).due < p.due
ASSUME LongFormsOverflow == \E f \in MCForms : FormAccepts(f) /\ ~Fits(Payload(f))
=============================================================================
