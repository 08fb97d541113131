------------------------------- MODULE Input -------------------------------
(***************************************************************************)
(* The keyboard: app/WindowInput.cpp, with the parts of                    *)
(* app/WindowPalette.cpp and app/WindowFind.cpp that take keys.  A key     *)
(* press is a WM_KEYDOWN and, for some keys, characters that Windows posts *)
(* behind it (TranslateMessage).  A handler that acts on the key leaves    *)
(* swallowNextChar_ set so that its character does nothing more.  Some     *)
(* handlers ask the user in a box of their own, whose loop handles the     *)
(* character before the handler returns.                                   *)
(***************************************************************************)
EXTENDS Naturals, Sequences

VARIABLES
  palette, \* paletteActive_
  find,    \* findActive_
  swallow, \* swallowNextChar_
  high,    \* pendingHighSurrogate_ is set
  box,     \* a handler is in a message box, an input box, the settings
  chars,   \* characters posted, each with who acted on their key
  armed,   \* what last set swallow: "own", "silent" or "box", see Take
  last     \* the last character: its unit, who acted on its key, where it went,
           \* whether a box was open, and what had set swallow

inputVars == <<palette, find, swallow, high, box, chars, armed, last>>

InputInit ==
  /\ palette = FALSE /\ find = FALSE /\ swallow = FALSE /\ high = FALSE
  /\ box = FALSE /\ chars = <<>> /\ armed = "own"
  /\ last = [unit |-> "x", by |-> "none", to |-> "shell", boxed |-> FALSE,
              why |-> "own"]

\* Kinds of keys, by the characters they post.  With Alt they post none that
\* onChar() sees, nor do Ctrl and a digit; "bound" is a function key with a
\* binding of the user's.
Posts ==
  [text |-> <<"x">>, pair |-> <<"hi", "lo">>,
   esc |-> <<"esc">>, enter |-> <<"enter">>, back |-> <<"back">>,
   openPalette |-> <<"ctl">>, openFind |-> <<"ctl">>, ctrl |-> <<"ctl">>,
   ask |-> <<"ctl">>,
   alt |-> <<>>, bound |-> <<>>, f3 |-> <<>>, upDown |-> <<>>, edit |-> <<>>,
   scroll |-> <<>>]

Keys == DOMAIN Posts

Post(k, who) ==
  chars' = [i \in DOMAIN Posts[k] |-> [unit |-> Posts[k][i], by |-> who]]

\* swallowNextChar_ = true at the end of a handler, at once or when its box has
\* been answered: the character to come is the key's own, or that of another key
\* since this one posts none, or since the box's loop has already had it.
Take(k, asks) ==
  IF asks THEN box' = TRUE /\ UNCHANGED <<swallow, armed>>
  ELSE /\ swallow' = TRUE
       /\ armed' = IF Posts[k] = <<>> THEN "silent" ELSE "own"
       /\ UNCHANGED box

BoxEnds ==
  /\ box /\ chars = <<>>
  /\ box' = FALSE /\ swallow' = TRUE /\ armed' = "box"
  /\ UNCHANGED <<palette, find, high, chars, last>>

\* executePaletteAction(): a disabled action beeps; every other closes the
\* palette, and may open the find bar or ask.
RunAction(k) ==
  \/ UNCHANGED <<palette, find>> /\ Take(k, FALSE)
  \/ palette' = FALSE /\ UNCHANGED find /\ \E asks \in BOOLEAN : Take(k, asks)
  \/ palette' = FALSE /\ find' = TRUE /\ Take(k, FALSE)

\* onPaletteKey().
PaletteTakes(k) ==
  /\ palette
  /\ \/ k = "enter" /\ RunAction(k)
     \/ k = "back" /\ Take(k, FALSE) /\ UNCHANGED <<palette, find>>
     \/ /\ k \in {"esc", "upDown"}
        /\ palette' = (k # "esc")
        /\ swallow' = FALSE
        /\ UNCHANGED <<find, box, armed>>
  /\ Post(k, "palette")

\* executeConfiguredBinding().
BindingTakes(k) ==
  /\ ~palette /\ k = "bound"
  /\ \/ RunAction(k)
     \/ palette' = TRUE /\ UNCHANGED find /\ Take(k, FALSE)
  /\ Post(k, "command")

\* Mutant: Escape's character is left to come.
FindTakesBare(k) ==
  /\ find /\ k \in {"esc", "enter", "back", "f3"} /\ ~(palette /\ k # "f3")
  /\ find' = (k # "esc")
  /\ UNCHANGED <<swallow, armed, box, palette>>
  /\ Post(k, "find")

FindTakes(k) ==
  /\ find /\ k \in {"esc", "enter", "back", "f3"} /\ ~(palette /\ k # "f3")
  /\ find' = (k # "esc")
  /\ IF k = "f3" THEN UNCHANGED <<swallow, armed, box>> ELSE Take(k, FALSE)
  /\ UNCHANGED palette
  /\ Post(k, "find")

\* The shortcuts of onKeyDown(), which work with the palette open too.  Paste
\* and copy with Insert, and scrolling with Shift, post nothing and swallow
\* nothing.
ShortcutTakes(k) ==
  /\ \/ k = "alt" /\ palette' \in BOOLEAN /\ UNCHANGED find /\ Take(k, FALSE)
     \/ k = "ctrl" /\ palette' \in {palette, FALSE} /\ UNCHANGED find
        /\ Take(k, FALSE)
     \/ k = "ask" /\ palette' \in {palette, FALSE} /\ UNCHANGED find
        /\ \E asks \in BOOLEAN : Take(k, asks)
     \/ k = "openPalette" /\ palette' = TRUE /\ UNCHANGED find /\ Take(k, FALSE)
     \/ k = "openFind" /\ palette' = FALSE /\ find' = TRUE /\ Take(k, FALSE)
     \/ k = "scroll" /\ UNCHANGED <<palette, find, swallow, armed, box>>
  /\ Post(k, "command")

\* Everything else: the keys without a character go to the shell as an escape
\* sequence (encodeTerminalKey), the others wait for onChar().
FallsThrough(k) ==
  /\ \/ k \in {"text", "pair"} /\ Post(k, "none")
     \/ k \in {"esc", "enter", "back"} /\ ~palette /\ ~find /\ Post(k, "none")
     \/ k \in {"upDown", "f3"} /\ ~(palette /\ k = "upDown") /\ ~(find /\ k = "f3")
        /\ Post(k, "shell")
     \/ k = "edit" /\ Post(k, "shell")
     \/ k = "bound" /\ palette /\ Post(k, "shell")
  /\ UNCHANGED <<palette, find, swallow, armed, box>>

\* onKeyDown(): characters are posted messages and come before the next key.
\* While a box is open keys go to the box.
OnKeyDown(k) ==
  /\ chars = <<>> /\ ~box
  /\ PaletteTakes(k) \/ BindingTakes(k) \/ FindTakes(k) \/ ShortcutTakes(k)
     \/ FallsThrough(k)
  /\ UNCHANGED <<high, last>>

\* onChar(), with onPaletteChar() and onFindChar().
OnChar ==
  /\ chars # <<>>
  /\ chars' = Tail(chars)
  /\ LET c == Head(chars)
         Goes(to) == last' = [unit |-> c.unit, by |-> c.by, to |-> to,
                              boxed |-> box, why |-> armed]
     IN \/ /\ swallow /\ swallow' = FALSE /\ Goes("dropped")
           /\ UNCHANGED <<find, high>>
        \/ /\ ~swallow /\ palette /\ Goes("palette")
           /\ UNCHANGED <<find, swallow, high>>
        \/ /\ ~swallow /\ ~palette /\ find /\ Goes("find")
           /\ find' = (c.unit # "esc")
           /\ UNCHANGED <<swallow, high>>
        \/ /\ ~swallow /\ ~palette /\ ~find
           /\ high' = (c.unit = "hi")
           /\ Goes(IF c.unit = "lo" /\ ~high THEN "dropped" ELSE "shell")
           /\ UNCHANGED <<find, swallow>>
  /\ UNCHANGED <<palette, box, armed>>

InputNext == BoxEnds \/ OnChar \/ \E k \in Keys : OnKeyDown(k)

InputSpec == InputInit /\ [][InputNext]_inputVars

-----------------------------------------------------------------------------
\* "Esc / Enter / Backspace also generate a WM_CHAR, so swallow it to avoid
\* double handling" (WindowInput.cpp:138-139): a character is dropped when its
\* key was acted upon, and only then.
OneReceiver == (last.to = "dropped") <=> (last.by # "none")

\* What the flag does guarantee.  A character that nobody acted on is dropped
\* only after a shortcut that posts none, or one that asked in a box.  One that
\* was acted on goes to a second receiver only from inside such a box, or when
\* it is the Escape that closed the palette.
KeysActOnce ==
  /\ last.to = "dropped" /\ last.by = "none" =>
       last.why \in {"silent", "box"}
  /\ last.to # "dropped" /\ last.by # "none" =>
       last.boxed \/ (last.by = "palette" /\ last.unit = "esc")
=============================================================================
