------------------------------ MODULE ModelPicker ------------------------------
(***************************************************************************)
(* The selector of models under the input: a combobox whose trigger keeps  *)
(* the keyboard focus while a row of the list is the active one, with a    *)
(* search field that narrows what is shown, and a list of models that may  *)
(* be replaced at any time.  Typing ahead may match any row.               *)
(***************************************************************************)
EXTENDS Naturals, Integers, Sequences

CONSTANTS Models, NoModel,
          Lists,        \* the lists that may come, in display order
          MaxKeys       \* bound of the model

\* Assumed of the constants wherever this module is instantiated.
PickerAssumption ==
    /\ NoModel \notin Models /\ MaxKeys \in Nat
    /\ \A l \in Lists : l \in Seq(Models)

VARIABLES pickerList, picked,      \* models and selectedModel
          pickerOpen, row,         \* isOpen and activeIndex
          matching,                \* the models that match searchQuery, all when it is empty
          focus, keysMade

pickerVars == <<pickerList, picked, pickerOpen, row, matching, focus, keysMade>>

ShownRows == SelectSeq(pickerList, LAMBDA m : m \in matching)
Highlighted == IF row + 1 \in DOMAIN ShownRows THEN ShownRows[row + 1] ELSE NoModel

Init == /\ pickerList \in Lists /\ picked \in Models \union {NoModel}
        /\ pickerOpen = FALSE /\ row = -1 /\ matching = Models
        /\ focus = "trigger" /\ keysMade = 0

-----------------------------------------------------------------------------
(***************************************************************************)
(* The effect on [isOpen, modelNames, selectedModel]: whenever one of them *)
(* has changed the active row is that of the selected model, or the first, *)
(* and the search is empty again; a closed list has no active row.         *)
(***************************************************************************)
RowOf(list, m) == IF \E i \in DOMAIN list : list[i] = m
                    THEN (CHOOSE i \in DOMAIN list : list[i] = m) - 1
                    ELSE IF list = <<>> THEN -1 ELSE 0
SettlesOnOpening == IF pickerOpen' = pickerOpen THEN UNCHANGED <<row, matching>>
                    ELSE /\ row' = IF pickerOpen' THEN RowOf(pickerList', picked') ELSE -1
                         /\ matching' = Models                \* a slip
Settles == /\ row' = IF pickerOpen' THEN RowOf(pickerList', picked') ELSE -1
           /\ matching' = Models

Presses == keysMade < MaxKeys /\ keysMade' = keysMade + 1
Key == Presses /\ focus = "trigger" /\ UNCHANGED <<focus, pickerList>>
Opens == pickerOpen' = TRUE /\ UNCHANGED picked /\ Settles
Closes == pickerOpen' = FALSE /\ UNCHANGED picked /\ Settles

(* nextActiveIndex, and the keys that move the active row.                 *)
NextRow(from, delta) == LET n == Len(pickerList)
                            base == IF from < 0 THEN IF delta > 0 THEN -1 ELSE n ELSE from
                        IN IF n = 0 THEN -1 ELSE (base + delta + n) % n
Rows == 0 .. Len(pickerList) - 1
MovesTo(i) == row' = i /\ UNCHANGED <<pickerOpen, picked, matching>>
Arrow == /\ Key /\ IF pickerOpen
                     THEN \E delta \in {-1, 1} : MovesTo(NextRow(row, delta))
                     ELSE Opens
Jump == /\ Key /\ IF ~pickerOpen THEN Opens
                  ELSE IF pickerList = <<>> THEN MovesTo(row)
                  ELSE MovesTo(0) \/ MovesTo(Len(pickerList) - 1)
TypeAhead == /\ Key /\ IF pickerOpen THEN \E i \in Rows \union {row} : MovesTo(i) ELSE Opens

(* Enter takes the active row of the whole list.                           *)
PastTheRow == IF row >= 0 THEN row ELSE 1       \* a slip
Target == (IF row >= 0 THEN row ELSE 0) + 1
Enter == /\ Key /\ pickerOpen /\ Target \in DOMAIN pickerList
         /\ picked' = pickerList[Target] /\ pickerOpen' = FALSE /\ Settles
Escape == Key /\ pickerOpen /\ Closes
Tab == Presses /\ focus = "trigger" /\ pickerOpen /\ focus' = "away"
       /\ UNCHANGED pickerList /\ Closes

(* The mouse; and the search field, whose keys the trigger does not hear.  *)
Click == /\ Presses /\ focus' = "trigger" /\ UNCHANGED pickerList
         /\ IF pickerOpen THEN Closes ELSE Opens
ClickOutside == Presses /\ pickerOpen /\ focus' = "away" /\ UNCHANGED pickerList /\ Closes
Hover(i) == /\ Presses /\ pickerOpen /\ i + 1 \in DOMAIN ShownRows
            /\ MovesTo(i) /\ UNCHANGED <<focus, pickerList>>
ClickRow(i) == /\ Presses /\ pickerOpen /\ i + 1 \in DOMAIN ShownRows
               /\ picked' = ShownRows[i + 1] /\ pickerOpen' = FALSE /\ Settles
               /\ focus' = "trigger" /\ UNCHANGED pickerList
Search(set) == /\ Presses /\ pickerOpen /\ focus' = "search" /\ matching' = set
               /\ UNCHANGED <<pickerList, picked, pickerOpen, row>>
Return == /\ Presses /\ focus # "trigger" /\ focus' = "trigger"
          /\ UNCHANGED <<pickerList, picked, pickerOpen, row, matching>>

(* A list comes, and with it the first of it may be selected.              *)
ListComes(list) == /\ Presses /\ pickerList' = list
                   /\ picked' = IF picked = NoModel /\ list # <<>> THEN list[1] ELSE picked
                   /\ UNCHANGED <<pickerOpen, focus>> /\ Settles

Next == \/ Arrow \/ Jump \/ TypeAhead \/ Enter \/ Escape \/ Tab
        \/ Click \/ ClickOutside \/ Return
        \/ \E i \in Rows : Hover(i) \/ ClickRow(i)
        \/ \E set \in SUBSET Models : Search(set)
        \/ \E list \in Lists : ListComes(list)

Spec == Init /\ [][Next]_pickerVars

-----------------------------------------------------------------------------
(* Every variable has the shape its comment gives it.                      *)
TypeOK == /\ pickerList \in Lists /\ picked \in Models \union {NoModel}
          /\ pickerOpen \in BOOLEAN /\ row \in -1 .. Len(pickerList) /\ matching \subseteq Models
          /\ focus \in {"trigger", "search", "away"} /\ keysMade \in 0 .. MaxKeys

(***************************************************************************)
(* The active row is one of the list whatever list has come and whatever   *)
(* was pressed before; a closed selector has none and no search left.      *)
(***************************************************************************)
RowIsOfTheList == IF pickerOpen THEN row \in Rows \/ (row = -1 /\ pickerList = <<>>)
                  ELSE row = -1 /\ matching = Models

(* Enter picks the row that is highlighted, as long as nothing is searched.*)
EnterPicksTheRow == [][Enter /\ matching = Models => picked' = Highlighted]_pickerVars

=============================================================================
