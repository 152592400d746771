------------------------------ MODULE KeyNames -------------------------------
(***************************************************************************)
(* How the settings file spells keys: the shortcut of the pins (Hotkey.cpp)*)
(* and the modifier keys of the drag gesture (DragModifiers.cpp).  A text  *)
(* is the sequence of what stands between its separators, in capitals and  *)
(* without blanks, as both parsers make it: a letter or digit, F with a    *)
(* number, or a word.                                                      *)
(***************************************************************************)
EXTENDS Integers, Sequences, FiniteSets, SequencesExt

\* What a text is made of, where its words are among those given.
Token(words) == [is : {"char", "f", "word"}, name : words, n : Int]

Char(code) == [is |-> "char", name |-> "", n |-> code]
FKey(number) == [is |-> "f", name |-> "", n |-> number]
Word(w) == [is |-> "word", name |-> w, n |-> 0]

\* Names and virtual-key codes; where a code has several names, the first is
\* the one written.
NamedKeys ==
  <<<<"SPACE", 32>>, <<"ENTER", 13>>, <<"RETURN", 13>>, <<"TAB", 9>>, <<"BACKSPACE", 8>>,
    <<"BACK", 8>>, <<"ESC", 27>>, <<"ESCAPE", 27>>, <<"INSERT", 45>>, <<"INS", 45>>,
    <<"DELETE", 46>>, <<"DEL", 46>>, <<"HOME", 36>>, <<"END", 35>>, <<"PAGEUP", 33>>,
    <<"PGUP", 33>>, <<"PAGEDOWN", 34>>, <<"PGDN", 34>>, <<"LEFT", 37>>, <<"UP", 38>>,
    <<"RIGHT", 39>>, <<"DOWN", 40>>, <<"PAUSE", 19>>>>
Modifiers == {"CTRL", "ALT", "SHIFT", "WIN"}
ModifierAliases ==
  [CTRL |-> {"CTRL", "CONTROL", "CTL"}, ALT |-> {"ALT", "MENU"}, SHIFT |-> {"SHIFT"},
   WIN |-> {"WIN", "WINDOWS", "META", "SUPER"}]
Letters == 65..90
Digits == 48..57
FirstF == 112
NoVk == 0

\* The modifier a token names, at most one.
ModifierFromToken(t) ==
  {m \in Modifiers : t.is = "word" /\ t.name \in ModifierAliases[m]}

\* The first name a table has for a code, if it has one.
NameOf(table, vk) ==
  LET rows == {i \in DOMAIN table : table[i][2] = vk}
  IN  IF rows = {} THEN <<>>
      ELSE <<Word(table[CHOOSE i \in rows : \A j \in rows : i <= j][1])>>
Named(table, w) == {table[i][2] : i \in {j \in DOMAIN table : table[j][1] = w}}

(* Mutant: F25 and beyond are taken for keys.                              *)
KeyFromTokenUnbounded(t) ==
  CASE t.is = "char" -> IF t.n \in Letters \cup Digits THEN t.n ELSE NoVk
    [] t.is = "f" -> IF t.n >= 1 THEN FirstF + t.n - 1 ELSE NoVk
    [] t.is = "word" -> IF Named(NamedKeys, t.name) = {} THEN NoVk
                        ELSE CHOOSE vk \in Named(NamedKeys, t.name) : TRUE

\* KeyFromToken and ParseKeyName.
KeyFromToken(t) ==
  CASE t.is = "char" -> IF t.n \in Letters \cup Digits THEN t.n ELSE NoVk
    [] t.is = "f" -> IF t.n \in 1..24 THEN FirstF + t.n - 1 ELSE NoVk
    [] t.is = "word" -> IF Named(NamedKeys, t.name) = {} THEN NoVk
                        ELSE CHOOSE vk \in Named(NamedKeys, t.name) : TRUE

\* KeyToken and FormatKeyName: no token where the key has no name.
KeyToken(vk) ==
  IF vk \in Letters \cup Digits THEN <<Char(vk)>>
  ELSE IF vk \in FirstF..(FirstF + 23) THEN <<FKey(vk - FirstF + 1)>>
  ELSE NameOf(NamedKeys, vk)
-----------------------------------------------------------------------------
NoHotkey == [mods |-> {}, key |-> NoVk]
IsValidHotkey(h) == h.mods # {} /\ h.key # NoVk

\* ParseHotkey: modifiers, each once, then one key; anything else is no shortcut.
ParseHotkey(text) ==
  LET n == Len(text)
      found == UNION {ModifierFromToken(text[i]) : i \in 1..n}
      hotkey == [mods |-> found, key |-> IF n = 0 THEN NoVk ELSE KeyFromToken(text[n])]
  IN  IF /\ n > 0 /\ ModifierFromToken(text[n]) = {}
         /\ \A i \in 1..(n - 1) : ModifierFromToken(text[i]) # {}
         /\ Cardinality(found) = n - 1 /\ IsValidHotkey(hotkey)
      THEN hotkey ELSE NoHotkey

\* FormatHotkey: the modifiers in one order, however they were typed.
FormatHotkey(h) ==
  IF ~IsValidHotkey(h) \/ KeyToken(h.key) = <<>> THEN <<>>
  ELSE LET Written(m) == IF m \in h.mods THEN <<Word(m)>> ELSE <<>>
       IN  Written("CTRL") \o Written("ALT") \o Written("SHIFT") \o Written("WIN")
             \o KeyToken(h.key)
-----------------------------------------------------------------------------
\* The check boxes of the drag settings, in their order, and two names more.
Presets ==
  <<<<"LALT", 164>>, <<"RALT", 165>>, <<"LWIN", 91>>, <<"RWIN", 92>>,
    <<"LCTRL", 162>>, <<"RCTRL", 163>>>>
ExtraNames == <<<<"LSHIFT", 160>>, <<"RSHIFT", 161>>>>

\* LookupOne: presets, the two shifts, then any key a shortcut may have.
LookupOne(t) ==
  LET own == IF t.is = "word" THEN Named(Presets \o ExtraNames, t.name) ELSE {}
  IN  IF own = {} THEN KeyFromToken(t) ELSE CHOOSE vk \in own : TRUE

OrderOf(vk) ==
  LET at == {i \in DOMAIN Presets : Presets[i][2] = vk}
  IN  IF at = {} THEN Len(Presets) + 1 ELSE CHOOSE i \in at : TRUE

Precedes(a, b) == OrderOf(a) < OrderOf(b) \/ (OrderOf(a) = OrderOf(b) /\ a < b)

\* SortCanonical, of a set of keys.
SortCanonical(keys) ==
  CHOOSE sorted \in [1..Cardinality(keys) -> keys] :
    \A i, j \in DOMAIN sorted : i < j => Precedes(sorted[i], sorted[j])

\* ParseDragModifiers: what it does not know is left out, what is named twice
\* counts once.
ParseDragModifiers(text) ==
  SortCanonical({LookupOne(text[i]) : i \in DOMAIN text} \ {NoVk})

DragToken(vk) ==
  LET own == NameOf(Presets \o ExtraNames, vk)
  IN  IF own = <<>> THEN KeyToken(vk) ELSE own

\* FormatDragModifiers: a key without a name is left out.
FormatDragModifiers(keys) ==
  LET out[i \in 0..Len(keys)] == IF i = 0 THEN <<>> ELSE out[i - 1] \o DragToken(keys[i])
  IN  out[Len(keys)]
-----------------------------------------------------------------------------
\* What was chosen is found again after a restart: a text means the same after
\* it was read and written, the file does not churn with the order of the keys,
\* and nothing without a modifier becomes a shortcut (Hotkey.cpp, the comments
\* at FormatHotkey and Hotkey::Valid).
SpellingIsKept(text) ==
  LET h == ParseHotkey(text)
      drag == ParseDragModifiers(text)
  IN  /\ ParseHotkey(FormatHotkey(h)) = h
      /\ h = NoHotkey \/ IsValidHotkey(h)
      /\ FormatHotkey(h) # <<>> <=> h # NoHotkey
      /\ ParseDragModifiers(FormatDragModifiers(drag)) = drag
      /\ ParseDragModifiers(Reverse(text)) = drag
      /\ Len(FormatDragModifiers(drag)) = Len(drag)
=============================================================================
