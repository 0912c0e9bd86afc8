----------------------------- MODULE OptionList -----------------------------
(***************************************************************************)
(* The select the panel draws itself: a button, and under it a list of     *)
(* options driven by the keyboard.  The options are the caller's, and may  *)
(* change while the list is open.  The text of an option is a sequence of  *)
(* letters.                                                                *)
(***************************************************************************)
EXTENDS Integers, Sequences, Folds, SequencesExt

CONSTANTS OptionLists,   \* the lists of options a caller may give
          Letters,       \* what can be typed
          MaxTyped       \* bound: letters typed within the time of one word

ASSUME OptionsAssumption ==
    /\ \A list \in OptionLists : Len(list) \in Nat /\ \A i \in 1..Len(list) : list[i].disabled \in BOOLEAN
    /\ MaxTyped \in Nat

VARIABLES options,       \* a sequence of options: value, text, disabled
          current,       \* the value
          listOpen, active, \* the list, and the position that is highlighted (0: none)
          typeahead      \* the letters of the word being typed

optionVars == <<options, current, listOpen, active, typeahead>>

Indexes == 1..Len(options)
IsEnabled(i) == i \in Indexes /\ ~options[i].disabled

\* The option the button shows: that of the value, or the first.
shownIndex ==
    IF \E i \in Indexes : options[i].value = current
    THEN SelectInSeq(options, LAMBDA o : o.value = current) ELSE IF options = <<>> THEN 0 ELSE 1

\* The first enabled option from `start`, going up or down; 0 when there is none.
enabledFrom(start, step) ==
    LET found == {i \in Indexes : IsEnabled(i) /\ IF step = 1 THEN i >= start ELSE i <= start}
    IN  IF found = {} THEN 0 ELSE CHOOSE i \in found : \A j \in found : IF step = 1 THEN i <= j ELSE i >= j

\* As a bug: a move does not turn back at the end.
NeverTurnsBack(from, delta) ==
    LET step == IF delta > 0 THEN 1 ELSE -1
        target == IF from + delta < 1 THEN 1 ELSE IF from + delta > Len(options) THEN Len(options) ELSE from + delta
    IN  enabledFrom(target, step)

move(from, delta) ==
    LET step == IF delta > 0 THEN 1 ELSE -1
        target == IF from + delta < 1 THEN 1 ELSE IF from + delta > Len(options) THEN Len(options) ELSE from + delta
        next == enabledFrom(target, step)
        fallback == enabledFrom(target, -step)
    IN  IF next # 0 THEN next ELSE IF fallback # 0 THEN fallback ELSE from

\* As a bug: a letter looks from the highlighted option on, and finds it again.
FindsItself(word, from) ==
    LET hits == {k \in 0..Len(options) - 1 : LET i == ((from - 1 + k) % Len(options)) + 1
                                              IN  IsEnabled(i) /\ IsPrefix(word, options[i].text)}
    IN  IF hits = {} THEN 0 ELSE ((from - 1 + CHOOSE k \in hits : \A other \in hits : k <= other) % Len(options)) + 1

\* The next option that starts with what was typed.  One letter, or the same one again,
\* looks past the highlighted option; a longer word looks from it on.
matchTyped(word, from) ==
    LET again == \A i \in 1..Len(word) : word[i] = word[1]
        wanted == IF again THEN <<word[1]>> ELSE word
        At(k) == ((IF again THEN from + k ELSE from - 1 + k) % Len(options)) + 1
        hits == {k \in 0..Len(options) - 1 : IsEnabled(At(k)) /\ IsPrefix(wanted, options[At(k)].text)}
    IN  IF options = <<>> \/ hits = {} THEN 0 ELSE At(CHOOSE k \in hits : \A other \in hits : k <= other)

OptionsInit ==
    /\ options \in OptionLists /\ current \in {o.value : o \in UNION {ToSet(list) : list \in OptionLists}}
    /\ listOpen = FALSE /\ active = 0 /\ typeahead = <<>>

openAt(index) ==
    /\ options # <<>>
    /\ active' = (IF index # 0 THEN index ELSE enabledFrom(1, 1)) /\ listOpen' = TRUE

\* A click, an arrow, Enter or Space open the list on the value; Home and End on an end.
OpenList ==
    /\ ~listOpen
    /\ openAt(shownIndex) \/ openAt(enabledFrom(1, 1)) \/ openAt(enabledFrom(Len(options), -1))
    /\ UNCHANGED <<options, current, typeahead>>

\* A letter opens the list on what it finds, or moves in it.  After a pause the word begins
\* again.
TypeLetter(letter) ==
    \E word \in {Append(typeahead, letter), <<letter>>} :
        LET hit == matchTyped(word, IF listOpen THEN active ELSE shownIndex)
        IN  /\ Len(word) <= MaxTyped /\ typeahead' = word
            /\ IF listOpen THEN active' = (IF hit # 0 THEN hit ELSE active) /\ UNCHANGED listOpen
               ELSE openAt(IF hit # 0 THEN hit ELSE shownIndex)
            /\ UNCHANGED <<options, current>>

\* The arrows, the page keys, Home and End, and the pointer over an option.
Highlight ==
    /\ listOpen
    /\ \/ \E delta \in {1, -1, 10, -10} : active' = move(active, delta)
       \/ active' \in {enabledFrom(1, 1), enabledFrom(Len(options), -1)}
       \/ \E i \in Indexes : IsEnabled(i) /\ active' = i
    /\ UNCHANGED <<options, current, listOpen, typeahead>>

\* Enter, Space, Alt and the arrow up, or a click.
Commit(index) ==
    /\ listOpen /\ IsEnabled(index)
    /\ listOpen' = FALSE /\ current' = options[index].value
    /\ UNCHANGED <<options, active, typeahead>>

\* Escape, Tab, or a click elsewhere.
CloseList ==
    /\ listOpen /\ listOpen' = FALSE
    /\ UNCHANGED <<options, current, active, typeahead>>

\* The caller renders other options.
OptionsChange ==
    /\ options' \in OptionLists \ {options}
    /\ UNCHANGED <<current, listOpen, active, typeahead>>

OptionsNext ==
    \/ OpenList \/ Highlight \/ CloseList \/ OptionsChange
    \/ \E letter \in Letters : TypeLetter(letter)
    \/ \E index \in Indexes : Commit(index)

OptionsSpec == OptionsInit /\ [][OptionsNext]_optionVars

(***************************************************************************)
(* What the list promises.                                                 *)
(***************************************************************************)
OptionsTypeOK ==
    /\ options \in OptionLists /\ listOpen \in BOOLEAN /\ active \in Nat
    /\ Len(typeahead) <= MaxTyped /\ shownIndex \in 0..Len(options)

\* Wherever the highlight stands, even past the end of a list that became shorter, every
\* key moves it to an option that can be picked while there is one (Select.tsx:181-187).
MovesLandOnEnabled ==
    listOpen /\ (\E i \in Indexes : IsEnabled(i)) =>
        \A delta \in {1, -1, 10, -10} : IsEnabled(move(active, delta))

\* Typing one letter again and again visits every option that begins with it
\* (Select.tsx:190-204).
TypingReachesAll ==
    \A letter \in Letters :
        LET begins == {i \in Indexes : IsEnabled(i) /\ IsPrefix(<<letter>>, options[i].text)}
            visits == FoldLeft(LAMBDA seen, k : Append(seen, matchTyped([n \in 1..k |-> letter],
                                                     IF seen = <<>> THEN active ELSE Last(seen))),
                               <<>>, [k \in 1..Len(options) |-> k])
        IN  listOpen => begins \subseteq ToSet(visits)
=============================================================================
