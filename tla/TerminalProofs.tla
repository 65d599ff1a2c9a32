--------------------------- MODULE TerminalProofs ---------------------------
(***************************************************************************)
(* The TTY task and the keyboard driver, for any text that is typed, any   *)
(* number of terminals and readers and buffers of any size: the keys that  *)
(* are queued are the ones that were typed, and the processes that read    *)
(* get the lines that they write.                                          *)
(***************************************************************************)
EXTENDS Terminal, SequenceTheorems, WellFoundedInduction, TLAPS

-----------------------------------------------------------------------------
(* Keys and their scan codes *)

\* The rows of the keymap, and the bytes of scan codes.
Rows == {"a", "one", "enter", "backspace", "shift_l", "shift_r", "ctrl", "alt", "caps", "num",
         "scroll", "star", "end", "up", "f1", "f2", "f12", "none", "E0", "E1"}
Bytes == Rows \X BOOLEAN

\* The keymap, row by row.
LEMMA KeymapRows ==
    /\ DOMAIN keymap = Rows
    /\ keymap["a"] = <<"a", "A", nul>> /\ keymap["one"] = <<"1", "!", nul>>
    /\ keymap["enter"] = <<"ENTER", "ENTER", "PAD_ENTER">>
    /\ keymap["backspace"] = <<"BACKSPACE", "BACKSPACE", nul>>
    /\ keymap["shift_l"] = <<"SHIFT_L", "SHIFT_L", nul>>
    /\ keymap["shift_r"] = <<"SHIFT_R", "SHIFT_R", nul>>
    /\ keymap["ctrl"] = <<"CTRL_L", "CTRL_L", "CTRL_R">>
    /\ keymap["alt"] = <<"ALT_L", "ALT_L", "ALT_R">>
    /\ keymap["caps"] = <<"CAPS_LOCK", "CAPS_LOCK", nul>>
    /\ keymap["num"] = <<"NUM_LOCK", "NUM_LOCK", nul>>
    /\ keymap["scroll"] = <<"SCROLL_LOCK", "SCROLL_LOCK", nul>>
    /\ keymap["star"] = <<"PAD_STAR", "PAD_STAR", nul>>
    /\ keymap["end"] = <<"PAD_END", "1", "END">> /\ keymap["up"] = <<"PAD_UP", "8", "UP">>
    /\ keymap["f1"] = <<"F1", "F1", nul>> /\ keymap["f2"] = <<"F2", "F2", nul>>
    /\ keymap["f12"] = <<"F12", "F12", nul>>
    /\ keymap["none"] = <<nul, nul, nul>> /\ keymap["E0"] = <<nul, nul, nul>>
    /\ keymap["E1"] = <<nul, nul, nul>>
BY DEF keymap, Rows

\* The rows of the keys that are sent behind E0.
LEMMA ExtendedRows ==
    /\ DOMAIN Extended = {"alt_r", "pad_enter", "arrow_up", "end_key"}
    /\ Extended["alt_r"] = "alt" /\ Extended["pad_enter"] = "enter"
    /\ Extended["arrow_up"] = "up" /\ Extended["end_key"] = "end"
BY DEF Extended

\* Codes of one, two, four and six bytes.
LEMMA OneByte ==
    ASSUME NEW a \in Bytes
    PROVE  <<a>> \in Seq(Bytes) /\ Len(<<a>>) = 1 /\ <<a>>[1] = a
OBVIOUS

LEMMA TwoBytes ==
    ASSUME NEW a \in Bytes, NEW b \in Bytes
    PROVE  <<a, b>> \in Seq(Bytes) /\ Len(<<a, b>>) = 2 /\ <<a, b>>[1] = a /\ <<a, b>>[2] = b
OBVIOUS

LEMMA FourBytes ==
    ASSUME NEW a \in Bytes, NEW b \in Bytes, NEW c \in Bytes, NEW d \in Bytes
    PROVE  /\ <<a, b, c, d>> \in Seq(Bytes) /\ Len(<<a, b, c, d>>) = 4
           /\ <<a, b, c, d>>[1] = a /\ <<a, b, c, d>>[2] = b
           /\ <<a, b, c, d>>[3] = c /\ <<a, b, c, d>>[4] = d
OBVIOUS

LEMMA SixBytes ==
    ASSUME NEW a \in Bytes, NEW b \in Bytes, NEW c \in Bytes, NEW d \in Bytes, NEW e \in Bytes,
           NEW f \in Bytes
    PROVE  /\ <<a, b, c, d, e, f>> \in Seq(Bytes) /\ Len(<<a, b, c, d, e, f>>) = 6
           /\ <<a, b, c, d, e, f>>[1] = a /\ <<a, b, c, d, e, f>>[2] = b
           /\ <<a, b, c, d, e, f>>[3] = c /\ <<a, b, c, d, e, f>>[4] = d
           /\ <<a, b, c, d, e, f>>[5] = e /\ <<a, b, c, d, e, f>>[6] = f
OBVIOUS

\* The codes of Pause and of Print, byte by byte.
LEMMA SpecialBytes ==
    /\ E0 \in Bytes /\ E1 \in Bytes /\ E0 # E1
    /\ PAUSE \in Seq(Bytes) /\ Len(PAUSE) = 6
    /\ PAUSE[1] = E1 /\ PAUSE[2] = <<"ctrl", FALSE>> /\ PAUSE[3] = <<"num", FALSE>>
    /\ PAUSE[4] = E1 /\ PAUSE[5] = <<"ctrl", TRUE>> /\ PAUSE[6] = <<"num", TRUE>>
    /\ \A up \in BOOLEAN : PRINT[up] \in Seq(Bytes) /\ Len(PRINT[up]) = 4 
                           /\ PRINT[up][1] = E0 /\ PRINT[up][3] = E0
    /\ PRINT[TRUE][2] = <<"star", TRUE>> /\ PRINT[TRUE][4] = <<"shift_l", TRUE>>
    /\ PRINT[FALSE][2] = <<"shift_l", FALSE>> /\ PRINT[FALSE][4] = <<"star", FALSE>>
<1>1. E0 \in Bytes /\ E1 \in Bytes /\ E0 # E1
  BY DEF E0, E1, Bytes, Rows
<1>2. \A up \in BOOLEAN : /\ <<"ctrl", up>> \in Bytes /\ <<"num", up>> \in Bytes
                          /\ <<"star", up>> \in Bytes /\ <<"shift_l", up>> \in Bytes
  BY DEF Bytes, Rows
<1>3. PAUSE = <<E1, <<"ctrl", FALSE>>, <<"num", FALSE>>, E1, <<"ctrl", TRUE>>, <<"num", TRUE>>>>
  BY DEF PAUSE, Byte
<1>4. /\ PRINT[TRUE] = <<E0, <<"star", TRUE>>, E0, <<"shift_l", TRUE>>>>
      /\ PRINT[FALSE] = <<E0, <<"shift_l", FALSE>>, E0, <<"star", FALSE>>>>
  BY DEF PRINT, Byte
<1>5. /\ PAUSE \in Seq(Bytes) /\ Len(PAUSE) = 6
      /\ PAUSE[1] = E1 /\ PAUSE[2] = <<"ctrl", FALSE>> /\ PAUSE[3] = <<"num", FALSE>>
      /\ PAUSE[4] = E1 /\ PAUSE[5] = <<"ctrl", TRUE>> /\ PAUSE[6] = <<"num", TRUE>>
  BY <1>1, <1>2, <1>3, SixBytes
<1>6. /\ PRINT[TRUE] \in Seq(Bytes) /\ Len(PRINT[TRUE]) = 4
      /\ PRINT[TRUE][1] = E0 /\ PRINT[TRUE][2] = <<"star", TRUE>>
      /\ PRINT[TRUE][3] = E0 /\ PRINT[TRUE][4] = <<"shift_l", TRUE>>
  <2>1. PICK t : t = <<E0, <<"star", TRUE>>, E0, <<"shift_l", TRUE>>>>
    OBVIOUS
  <2>2. /\ t \in Seq(Bytes) /\ Len(t) = 4 /\ t[1] = E0 /\ t[2] = <<"star", TRUE>>
        /\ t[3] = E0 /\ t[4] = <<"shift_l", TRUE>>
    BY <1>1, <1>2, <2>1, FourBytes
  <2> QED
    BY <1>4, <2>1, <2>2
<1>7. /\ PRINT[FALSE] \in Seq(Bytes) /\ Len(PRINT[FALSE]) = 4
      /\ PRINT[FALSE][1] = E0 /\ PRINT[FALSE][2] = <<"shift_l", FALSE>>
      /\ PRINT[FALSE][3] = E0 /\ PRINT[FALSE][4] = <<"star", FALSE>>
  <2>1. PICK t : t = <<E0, <<"shift_l", FALSE>>, E0, <<"star", FALSE>>>>
    OBVIOUS
  <2>2. /\ t \in Seq(Bytes) /\ Len(t) = 4 /\ t[1] = E0 /\ t[2] = <<"shift_l", FALSE>>
        /\ t[3] = E0 /\ t[4] = <<"star", FALSE>>
    BY <1>1, <1>2, <2>1, FourBytes
  <2> QED
    BY <1>4, <2>1, <2>2
<1> QED
  BY <1>1, <1>5, <1>6, <1>7

\* What the beginnings of a sequence are.
Begins(g, t) == Len(g) < Len(t) /\ \A i \in 1 .. Len(g) : g[i] = t[i]

LEMMA StrictPrefix ==
    ASSUME NEW g \in Seq(Bytes), NEW t \in Seq(Bytes)
    PROVE  IsStrictPrefix(g, t) <=> Begins(g, t)
<1> USE DEF Begins
<1>1. Len(g) \in Nat /\ Len(t) \in Nat
  OBVIOUS
<1>2. SubSeq(g, 1, Len(g)) = g
  BY SubSeqFull
<1>3. ASSUME Len(g) <= Len(t)
      PROVE  /\ SubSeq(t, 1, Len(g)) \in Seq(Bytes) /\ Len(SubSeq(t, 1, Len(g))) = Len(g)
             /\ \A i \in 1 .. Len(g) : SubSeq(t, 1, Len(g))[i] = t[i]
  <2>1. \A i \in 1 .. Len(g) : t[i] \in Bytes
    BY <1>1, <1>3, ElementOfSeq
  <2> QED
    BY <1>1, <1>3, <2>1, SubSeqProperties
<1>4. ASSUME Len(g) <= Len(t)
      PROVE  g = SubSeq(t, 1, Len(g)) <=> \A i \in 1 .. Len(g) : g[i] = t[i]
  BY <1>1, <1>3, <1>4, SeqEqual
<1>5. ASSUME Len(g) = Len(t), \A i \in 1 .. Len(g) : g[i] = t[i] PROVE g = t
  BY <1>5, SeqEqual
<1> QED
  BY <1>1, <1>2, <1>4, <1>5 DEF IsStrictPrefix, IsPrefix

\* What keyboard_read waits on is shorter than the sequence it may become.
LEMMA UnfinishedBytes ==
    ASSUME NEW g \in Seq(Bytes)
    PROVE  Unfinished(g) <=>
             \/ Len(g) < 6 /\ \A i \in 1 .. Len(g) : g[i] = PAUSE[i]
             \/ \E up \in BOOLEAN : Len(g) < 4 /\ \A i \in 1 .. Len(g) : g[i] = PRINT[up][i]
<1>1. Unfinished(g) <=> \/ IsStrictPrefix(g, PAUSE) \/ IsStrictPrefix(g, PRINT[TRUE])
                        \/ IsStrictPrefix(g, PRINT[FALSE])
  BY DEF Unfinished, Specials
<1>2. /\ PAUSE \in Seq(Bytes) /\ Len(PAUSE) = 6
      /\ PRINT[TRUE] \in Seq(Bytes) /\ Len(PRINT[TRUE]) = 4
      /\ PRINT[FALSE] \in Seq(Bytes) /\ Len(PRINT[FALSE]) = 4
  BY SpecialBytes
<1>3. IsStrictPrefix(g, PAUSE) <=> Len(g) < 6 /\ \A i \in 1 .. Len(g) : g[i] = PAUSE[i]
  <2>1. PICK s \in Seq(Bytes) : s = PAUSE /\ Len(s) = 6
    BY <1>2
  <2>2. IsStrictPrefix(g, s) <=> Begins(g, s)
    BY StrictPrefix
  <2> QED
    BY <2>1, <2>2 DEF Begins
<1>4. ASSUME NEW up \in BOOLEAN
      PROVE  IsStrictPrefix(g, PRINT[up]) <=> Len(g) < 4 /\ \A i \in 1 .. Len(g) : g[i] = PRINT[up][i]
  <2>1. PICK s \in Seq(Bytes) : s = PRINT[up] /\ Len(s) = 4
    BY <1>2
  <2>2. IsStrictPrefix(g, s) <=> Begins(g, s)
    BY StrictPrefix
  <2> QED
    BY <2>1, <2>2 DEF Begins
<1>5. Unfinished(g) <=> IsStrictPrefix(g, PAUSE) \/ \E up \in BOOLEAN : IsStrictPrefix(g, PRINT[up])
  BY <1>1
<1> QED
  BY <1>3, <1>4, <1>5, Zenon

\* A sequence that begins with another byte than those of Pause and Print is
\* not waited on.
LEMMA UnfinishedFirst ==
    ASSUME NEW g \in Seq(Bytes), Len(g) > 0, Unfinished(g)
    PROVE  \/ Len(g) < 6 /\ g[1] = E1
           \/ Len(g) < 4 /\ g[1] = E0 /\ (Len(g) >= 2 => g[2] \in {<<"star", TRUE>>, <<"shift_l", FALSE>>})
<1>0. Len(g) \in Nat \ {0} /\ 1 \in 1 .. Len(g) /\ (Len(g) >= 2 => 2 \in 1 .. Len(g))
  OBVIOUS
<1>1. CASE Len(g) < 6 /\ \A i \in 1 .. Len(g) : g[i] = PAUSE[i]
  BY <1>0, <1>1, SpecialBytes
<1>2. ASSUME NEW up \in BOOLEAN, Len(g) < 4, \A i \in 1 .. Len(g) : g[i] = PRINT[up][i]
      PROVE  Len(g) < 4 /\ g[1] = E0 /\ (Len(g) >= 2 => g[2] \in {<<"star", TRUE>>, <<"shift_l", FALSE>>})
  <2>1. PRINT[up][1] = E0 /\ PRINT[up][2] \in {<<"star", TRUE>>, <<"shift_l", FALSE>>}
    BY SpecialBytes
  <2> QED
    BY <1>0, <1>2, <2>1
<1> QED
  BY <1>1, <1>2, UnfinishedBytes

\* Pause and Print, the other keys, and the row of a key.
Special == {"pause", "print"}
RegularKeys == Keys \ Special
RowOf(k) == IF k \in DOMAIN Extended THEN Extended[k] ELSE k

\* Every key but Pause and Print has a row.
LEMMA KeyRows ==
    ASSUME NEW k \in RegularKeys
    PROVE  /\ RowOf(k) \in Rows \ {"none", "E0", "E1"}
           /\ k \in DOMAIN Extended \/ RowOf(k) = k
BY KeymapRows, ExtendedRows DEF RegularKeys, Keys, Special, RowOf, Rows

\* What the keyboard sends for a key.
LEMMA CodesOfKeys ==
    ASSUME NEW k \in Keys, NEW up \in BOOLEAN
    PROVE  /\ k = "pause" /\ up => Codes(k, up) = << >>
           /\ k = "pause" /\ ~up => Codes(k, up) = PAUSE
           /\ k = "print" => Codes(k, up) = PRINT[up]
           /\ k \in DOMAIN Extended => k \in RegularKeys /\ Codes(k, up) = <<E0, <<RowOf(k), up>>>>
           /\ k \in RegularKeys \ DOMAIN Extended => Codes(k, up) = <<<<RowOf(k), up>>>>
BY ExtendedRows DEF Codes, RowOf, Byte, RegularKeys, Special

\* Every key sends bytes; only Pause sends nothing when it is let go.
LEMMA CodesType ==
    ASSUME NEW k \in Keys, NEW up \in BOOLEAN
    PROVE  /\ Codes(k, up) \in Seq(Bytes)
           /\ Codes(k, up) = << >> <=> k = "pause" /\ up
<1>1. k \in RegularKeys => <<RowOf(k), up>> \in Bytes
  BY KeyRows DEF Bytes
<1>2. CASE k = "pause"
  <2>1. CASE up
    <3>1. Codes(k, up) = << >>
      BY <1>2, <2>1, CodesOfKeys
    <3>2. << >> \in Seq(Bytes)
      OBVIOUS
    <3> QED
      BY <1>2, <2>1, <3>1, <3>2, Zenon
  <2>2. CASE ~up
    <3>1. Codes(k, up) = PAUSE /\ Len(PAUSE) = 6 /\ PAUSE \in Seq(Bytes)
      BY <1>2, <2>2, CodesOfKeys, SpecialBytes
    <3>2. PAUSE # << >>
      BY <3>1
    <3> QED
      BY <2>2, <3>1, <3>2
  <2> QED
    BY <2>1, <2>2
<1>3. CASE k = "print"
  BY <1>3, CodesOfKeys, SpecialBytes
<1>4. CASE k \in DOMAIN Extended
  <2>1. Codes(k, up) = <<E0, <<RowOf(k), up>>>> /\ k \in RegularKeys
    BY <1>4, CodesOfKeys
  <2>2. Codes(k, up) \in Seq(Bytes) /\ Len(Codes(k, up)) = 2
    BY <1>1, <2>1, TwoBytes, SpecialBytes
  <2> QED
    BY <2>1, <2>2 DEF RegularKeys, Special
<1>5. CASE k \in RegularKeys \ DOMAIN Extended
  <2>1. Codes(k, up) = <<<<RowOf(k), up>>>>
    BY <1>5, CodesOfKeys
  <2>2. Codes(k, up) \in Seq(Bytes) /\ Len(Codes(k, up)) = 1
    BY <1>1, <1>5, <2>1, OneByte
  <2> QED
    BY <1>5, <2>2 DEF RegularKeys, Special
<1> QED
  BY <1>2, <1>3, <1>4, <1>5 DEF RegularKeys, Special

\* The beginning of a code makes keyboard_read wait for the rest.
LEMMA BeginningUnfinished ==
    ASSUME NEW k \in Keys, NEW up \in BOOLEAN, NEW g \in Seq(Bytes), Len(g) > 0,
           Len(g) < Len(Codes(k, up)), \A i \in 1 .. Len(g) : g[i] = Codes(k, up)[i]
    PROVE  Unfinished(g)
<1>0. Len(g) \in Nat \ {0}
  OBVIOUS
<1>1. CASE k = "pause"
  <2>1. ~up
    BY <1>0, <1>1, CodesOfKeys
  <2>2. Codes(k, up) = PAUSE
    BY <1>1, <2>1, CodesOfKeys
  <2> QED
    BY <2>2, SpecialBytes, UnfinishedBytes
<1>2. CASE k = "print"
  <2>1. Codes(k, up) = PRINT[up] /\ Len(PRINT[up]) = 4
    BY <1>2, CodesOfKeys, SpecialBytes
  <2>2. Len(g) < 4 /\ \A i \in 1 .. Len(g) : g[i] = PRINT[up][i]
    BY <2>1
  <2> QED
    BY <2>2, UnfinishedBytes
<1>3. CASE k \in DOMAIN Extended
  <2>1. /\ Codes(k, up) = <<E0, <<RowOf(k), up>>>> /\ <<RowOf(k), up>> \in Bytes
    BY <1>3, CodesOfKeys, KeyRows DEF Bytes
  <2>2. Len(Codes(k, up)) = 2 /\ Codes(k, up)[1] = E0
    BY <2>1, TwoBytes, SpecialBytes
  <2>3. Len(g) = 1 /\ g[1] = E0
    <3>1. Len(g) = 1
      <4>1. PICK n \in Nat : n = Len(Codes(k, up)) /\ n = 2 /\ Len(g) < n
        BY <2>2
      <4>2. PICK m \in Nat : m = Len(g) /\ m # 0 /\ m < 2
        BY <1>0, <4>1
      <4>3. m = 1
        BY <4>2
      <4> QED
        BY <4>2, <4>3
    <3> QED
      BY <2>2, <3>1
  <2>4. PRINT[up][1] = E0
    BY SpecialBytes
  <2>5. Len(g) < 4 /\ \A i \in 1 .. Len(g) : g[i] = PRINT[up][i]
    BY <2>3, <2>4
  <2> QED
    BY <2>5, UnfinishedBytes
<1>4. CASE k \in RegularKeys \ DOMAIN Extended
  <2>1. Codes(k, up) = <<<<RowOf(k), up>>>> /\ <<RowOf(k), up>> \in Bytes
    BY <1>4, CodesOfKeys, KeyRows DEF Bytes
  <2> QED
    BY <1>0, <2>1, OneByte
<1> QED
  BY <1>1, <1>2, <1>3, <1>4 DEF RegularKeys, Special

\* A whole code is taken for what it is.
LEMMA WholeCode ==
    ASSUME NEW k \in Keys, NEW up \in BOOLEAN, Codes(k, up) # << >>
    PROVE  /\ ~Unfinished(Codes(k, up))
           /\ Codes(k, up) \in Specials <=> k \in Special
           /\ k \in RegularKeys => /\ RegularByte(Codes(k, up)) = <<RowOf(k), up>>
                                   /\ code_with_E0(Codes(k, up)) <=> k \in DOMAIN Extended
<1>0. \A s \in Specials : s \in Seq(Bytes) /\ Len(s) \in {4, 6}
  BY SpecialBytes DEF Specials
<1>1. CASE k = "pause"
  <2>1. Codes(k, up) = PAUSE
    BY <1>1, CodesOfKeys
  <2>2. ~Unfinished(PAUSE)
    <3>1. Len(PAUSE) = 6 /\ PAUSE \in Seq(Bytes) /\ PAUSE[1] # E0
      BY SpecialBytes
    <3>2. Len(PAUSE) > 0 /\ ~(Len(PAUSE) < 6)
      BY <3>1
    <3> QED
      BY <3>1, <3>2, UnfinishedFirst, Zenon
  <2> QED
    BY <1>1, <2>1, <2>2 DEF Specials, Special, RegularKeys
<1>2. CASE k = "print"
  <2>1. Codes(k, up) = PRINT[up]
    BY <1>2, CodesOfKeys
  <2>2. ~Unfinished(PRINT[up])
    <3>1. Len(PRINT[up]) = 4 /\ PRINT[up] \in Seq(Bytes) /\ PRINT[up][1] # E1
      BY SpecialBytes
    <3>2. PICK t : t = PRINT[up]
      OBVIOUS
    <3>3. t \in Seq(Bytes) /\ Len(t) = 4 /\ t[1] # E1
      BY <3>1, <3>2
    <3>4. Len(t) > 0 /\ ~(Len(t) < 4)
      BY <3>3
    <3>5. ~Unfinished(t)
      BY <3>3, <3>4, UnfinishedFirst, Zenon
    <3> QED
      BY <3>2, <3>5
  <2> QED
    BY <1>2, <2>1, <2>2 DEF Specials, Special, RegularKeys
<1>3. CASE k \in DOMAIN Extended
  <2>1. PICK b \in Bytes : b = <<RowOf(k), up>> /\ RowOf(k) \in {"alt", "enter", "up", "end"}
    BY <1>3, CodesOfKeys, KeyRows, ExtendedRows DEF Bytes, RowOf
  <2>2. PICK g : g = <<E0, b>> /\ g = Codes(k, up)
    BY <1>3, <2>1, CodesOfKeys
  <2>3. g \in Seq(Bytes) /\ Len(g) = 2 /\ g[1] = E0 /\ g[2] = b
    BY <2>1, <2>2, TwoBytes, SpecialBytes
  <2>4. b # <<"star", TRUE>> /\ b # <<"shift_l", FALSE>> /\ E0 # E1
    BY <2>1, SpecialBytes
  <2>5. ~Unfinished(g)
    <3>1. Len(g) > 0 /\ (Len(g) >= 2 <=> Len(g) = 2)
      BY <2>3
    <3> QED
      BY <2>3, <2>4, <3>1, UnfinishedFirst, Zenon
  <2>6. g \notin Specials
    <3>1. Len(g) \notin {4, 6}
      BY <2>3
    <3> QED
      BY <1>0, <3>1
  <2>7. RegularByte(g) = b /\ code_with_E0(g)
    BY <2>3, SpecialBytes DEF RegularByte, code_with_E0, Last
  <2> QED
    BY <1>3, <2>1, <2>2, <2>5, <2>6, <2>7, CodesOfKeys DEF RegularKeys
<1>4. CASE k \in RegularKeys \ DOMAIN Extended
  <2>1. PICK b \in Bytes : b = <<RowOf(k), up>> /\ RowOf(k) \notin {"E0", "E1"}
    <3>1. RowOf(k) \in Rows /\ RowOf(k) \notin {"E0", "E1"}
      BY <1>4, KeyRows
    <3>2. <<RowOf(k), up>> \in Rows \X BOOLEAN
      BY <3>1
    <3> QED
      BY <3>1, <3>2 DEF Bytes
  <2>2. PICK g : g = <<b>> /\ g = Codes(k, up)
    BY <1>4, <2>1, CodesOfKeys
  <2>3. g \in Seq(Bytes) /\ Len(g) = 1 /\ g[1] = b
    BY <2>1, <2>2, OneByte
  <2>4. b # E0 /\ b # E1
    BY <2>1 DEF E0, E1
  <2>5. ~Unfinished(g)
    <3>1. Len(g) > 0 /\ (Len(g) >= 2 <=> Len(g) = 2)
      BY <2>3
    <3> QED
      BY <2>3, <2>4, <3>1, UnfinishedFirst, Zenon
  <2>6. g \notin Specials
    <3>1. Len(g) \notin {4, 6}
      BY <2>3
    <3> QED
      BY <1>0, <3>1
  <2>7. RegularByte(g) = b /\ ~code_with_E0(g)
    BY <2>3, <2>4, SpecialBytes DEF RegularByte, code_with_E0, Last
  <2> QED
    BY <1>4, <2>1, <2>2, <2>5, <2>6, <2>7 DEF RegularKeys
<1> QED
  BY <1>1, <1>2, <1>3, <1>4 DEF RegularKeys, Special

-----------------------------------------------------------------------------
(* Modifiers, and what a key writes *)

\* The modifiers that change what a key writes, and the states of the driver.
ModNames == {"shift_l", "shift_r", "caps", "num"}
KbStates == [shift_l : BOOLEAN, shift_r : BOOLEAN, ctrl_l : BOOLEAN, ctrl_r : BOOLEAN,
             alt_l : BOOLEAN, alt_r : BOOLEAN, caps_lock : BOOLEAN, num_lock : BOOLEAN,
             scroll_lock : BOOLEAN]

\* The modifiers and locks that a text depends on, as the driver knows them.
KbMods(kb) == {m \in ModNames : \/ m = "shift_l" /\ kb.shift_l
                                \/ m = "shift_r" /\ kb.shift_r
                                \/ m = "caps" /\ kb.caps_lock
                                \/ m = "num" /\ kb.num_lock}

\* What a key does to them, and what it writes.
Pressed(M, k, up) ==
    IF k \in {"shift_l", "shift_r"} THEN IF up THEN M \ {k} ELSE M \cup {k}
    ELSE IF k \in {"caps", "num"} /\ ~up THEN IF k \in M THEN M \ {k} ELSE M \cup {k}
    ELSE M
Written(M, k) ==
    LET shift == M \cap {"shift_l", "shift_r"} # {}
    IN  CASE k = "a" -> IF shift # ("caps" \in M) THEN <<"A">> ELSE <<"a">>
          [] k = "one" -> IF shift THEN <<"!">> ELSE <<"1">>
          [] k = "end" -> IF shift \/ "num" \in M THEN <<"1">> ELSE << >>
          [] k = "up" -> IF shift \/ "num" \in M THEN <<"8">> ELSE << >>
          [] k = "star" -> <<"*">>
          [] k \in {"enter", "pad_enter"} -> <<"nl">>
          [] k = "backspace" -> <<"bs">>
          [] OTHER -> << >>

\* The modifiers, one by one.
LEMMA KbModsFacts ==
    ASSUME NEW kb \in KbStates
    PROVE  /\ "shift_l" \in KbMods(kb) <=> kb.shift_l
           /\ "shift_r" \in KbMods(kb) <=> kb.shift_r
           /\ "caps" \in KbMods(kb) <=> kb.caps_lock
           /\ "num" \in KbMods(kb) <=> kb.num_lock
           /\ KbMods(kb) \subseteq ModNames
BY DEF KbMods, ModNames

\* The keys that are held, and the locks that are on, change as Pressed says.
HeldAfter(h, k, up) ==
    IF k \notin Locks THEN IF up THEN h \ {k} ELSE h \cup {k}
    ELSE IF up THEN h ELSE IF k \in h THEN h \ {k} ELSE h \cup {k}

LEMMA HeldPressed ==
    ASSUME NEW h, NEW k, NEW up \in BOOLEAN
    PROVE  HeldAfter(h, k, up) \cap ModNames = Pressed(h \cap ModNames, k, up)
<1>1. CASE k \in {"shift_l", "shift_r"}
  BY <1>1 DEF HeldAfter, Pressed, ModNames, Locks
<1>2. CASE k \in {"caps", "num"}
  BY <1>2 DEF HeldAfter, Pressed, ModNames, Locks
<1>3. CASE k \notin ModNames
  BY <1>3 DEF HeldAfter, Pressed, ModNames
<1> QED
  BY <1>1, <1>2, <1>3 DEF ModNames

\* What somebody wants to write depends on the modifiers only.
LEMMA MeaningWritten == ASSUME NEW k PROVE Meaning(k) = Written(held \cap ModNames, k)
<1>1. /\ (held \cap ModNames) \cap {"shift_l", "shift_r"} = held \cap {"shift_l", "shift_r"}
      /\ "caps" \in held \cap ModNames <=> "caps" \in held
      /\ "num" \in held \cap ModNames <=> "num" \in held
  BY DEF ModNames
<1> QED
  BY <1>1 DEF Meaning, Written

\* The column of the keymap that a regular key is taken from.
LEMMA KeyTable ==
    ASSUME kb_state \in KbStates, NEW k \in RegularKeys, NEW up \in BOOLEAN, NEW key,
           key = KeyOf(<<RowOf(k), up>>, k \in DOMAIN Extended)
    PROVE  LET shift == kb_state.shift_l \/ kb_state.shift_r IN
           /\ k = "a" => key = IF shift # kb_state.caps_lock THEN "A" ELSE "a"
           /\ k = "one" => key = IF shift THEN "!" ELSE "1"
           /\ k = "end" => key = IF shift THEN "1" ELSE "PAD_END"
           /\ k = "up" => key = IF shift THEN "8" ELSE "PAD_UP"
           /\ k = "enter" => key = "ENTER"
           /\ k = "pad_enter" => key = "PAD_ENTER"
           /\ k = "backspace" => key = "BACKSPACE" 
           /\ k = "star" => key = "PAD_STAR"
           /\ k = "shift_l" => key = "SHIFT_L" 
           /\ k = "shift_r" => key = "SHIFT_R"
           /\ k = "caps" => key = "CAPS_LOCK" 
           /\ k = "num" => key = "NUM_LOCK"
           /\ k = "scroll" => key = "SCROLL_LOCK" 
           /\ k = "ctrl" => key = "CTRL_L"
           /\ k = "alt" => key = "ALT_L" 
           /\ k = "alt_r" => key = "ALT_R"
           /\ k = "end_key" => key = "END" 
           /\ k = "arrow_up" => key = "UP"
           /\ k = "f1" => key = "F1" 
           /\ k = "f2" => key = "F2" 
           /\ k = "f12" => key = "F12"
<1>1. PICK row \in Rows : row = RowOf(k)
  BY KeyRows
<1>2. PICK shift \in BOOLEAN : shift = (kb_state.shift_l \/ kb_state.shift_r)
  OBVIOUS
<1>3. key = keymap[row][IF k \in DOMAIN Extended THEN 3
                        ELSE IF IF kb_state.caps_lock /\ keymap[row][1] \in Letters THEN ~shift ELSE shift
                             THEN 2 ELSE 1]
  BY <1>1, <1>2 DEF KeyOf
<1>4. CASE k \in DOMAIN Extended
  <2>1. key = keymap[row][3]
    BY <1>3, <1>4
  <2> QED
    BY <1>1, <1>4, <2>1, ExtendedRows, KeymapRows DEF RowOf
<1>5. CASE k \notin DOMAIN Extended /\ k = "a"
  <2>1. row = "a" /\ keymap[row][1] = "a" /\ keymap[row][2] = "A"
    BY <1>1, <1>5, KeymapRows DEF RowOf
  <2>2. key = keymap[row][IF IF kb_state.caps_lock THEN ~shift ELSE shift THEN 2 ELSE 1]
    BY <1>3, <1>5, <2>1 DEF Letters
  <2>3. kb_state.caps_lock \in BOOLEAN
    BY DEF KbStates
  <2>4. key = IF shift # kb_state.caps_lock THEN "A" ELSE "a"
    <3>1. CASE kb_state.caps_lock = TRUE
      BY <2>1, <2>2, <3>1
    <3>2. CASE kb_state.caps_lock = FALSE
      BY <2>1, <2>2, <3>2
    <3> QED
      BY <2>3, <3>1, <3>2
  <2> QED
    BY <1>2, <1>5, <2>4
<1>6. CASE k \notin DOMAIN Extended /\ k # "a"
  <2>1. row = k
    BY <1>1, <1>6 DEF RowOf
  <2>2. keymap[row][1] \notin Letters
    BY <1>6, <2>1, KeymapRows DEF Letters, Rows, nul
  <2>3. key = IF shift THEN keymap[row][2] ELSE keymap[row][1]
    BY <1>3, <1>6, <2>2
  <2>4. k \notin {"alt_r", "pad_enter", "arrow_up", "end_key"}
    BY <1>6, ExtendedRows
  <2>5. CASE k \in {"one", "end", "up"}
    <3>1. /\ k = "one" => keymap[k][1] = "1" /\ keymap[k][2] = "!"
          /\ k = "end" => keymap[k][1] = "PAD_END" /\ keymap[k][2] = "1"
          /\ k = "up" => keymap[k][1] = "PAD_UP" /\ keymap[k][2] = "8"
      BY KeymapRows
    <3> QED
      BY <1>2, <2>1, <2>3, <2>5, <3>1
  <2>6. CASE k \notin {"one", "end", "up"}
    <3>1. keymap[k][2] = keymap[k][1]
      BY <1>6, <2>1, <2>6, KeymapRows DEF Rows
    <3>2. key = keymap[k][1]
      BY <2>1, <2>3, <3>1
    <3> QED
      BY <1>6, <2>4, <2>6, <3>2, KeymapRows
  <2> QED
    BY <2>5, <2>6
<1> QED
  BY <1>4, <1>5, <1>6

\* process_regular_key keeps the modifiers of their type.
LEMMA StateAfterType ==
    ASSUME kb_state \in KbStates, NEW key, NEW make \in BOOLEAN
    PROVE  StateAfter(key, make) \in KbStates
<1>1. CASE key = "SHIFT_L"
  BY <1>1 DEF StateAfter, KbStates
<1>2. CASE key = "SHIFT_R"
  BY <1>2 DEF StateAfter, KbStates
<1>3. CASE key = "CTRL_L"
  BY <1>3 DEF StateAfter, KbStates
<1>4. CASE key = "CTRL_R"
  BY <1>4 DEF StateAfter, KbStates
<1>5. CASE key \in {"ALT_L", "ALT_R"}
  BY <1>5 DEF StateAfter, KbStates
<1>6. CASE key = "CAPS_LOCK" /\ make
  <2>1. StateAfter(key, make) = [kb_state EXCEPT !.caps_lock = ~@]
    BY <1>6 DEF StateAfter
  <2> QED
    BY <2>1 DEF KbStates
<1>7. CASE key = "NUM_LOCK" /\ make
  <2>1. StateAfter(key, make) = [kb_state EXCEPT !.num_lock = ~@]
    BY <1>7 DEF StateAfter
  <2> QED
    BY <2>1 DEF KbStates
<1>8. CASE key = "SCROLL_LOCK" /\ make
  <2>1. StateAfter(key, make) = [kb_state EXCEPT !.scroll_lock = ~@]
    BY <1>8 DEF StateAfter
  <2> QED
    BY <2>1 DEF KbStates
<1> QED
  BY <1>1, <1>2, <1>3, <1>4, <1>5, <1>6, <1>7, <1>8 DEF StateAfter

\* The driver follows the modifiers.
LEMMA KeyMods ==
    ASSUME kb_state \in KbStates, NEW k \in RegularKeys, NEW up \in BOOLEAN, NEW key,
           key = KeyOf(<<RowOf(k), up>>, k \in DOMAIN Extended)
    PROVE  KbMods(StateAfter(key, ~up)) = Pressed(KbMods(kb_state), k, up)
<1>1. PICK kb \in KbStates : kb = StateAfter(key, ~up)
  BY StateAfterType
<1>2. CASE k = "shift_l"
  <2>1. kb = [kb_state EXCEPT !.shift_l = ~up]
    BY <1>1, <1>2, KeyTable DEF StateAfter
  <2>2. /\ kb.shift_l = ~up /\ kb.shift_r = kb_state.shift_r
        /\ kb.caps_lock = kb_state.caps_lock /\ kb.num_lock = kb_state.num_lock
    BY <2>1 DEF KbStates
  <2> QED
    BY <1>1, <1>2, <2>2 DEF KbMods, Pressed, ModNames
<1>3. CASE k = "shift_r"
  <2>1. kb = [kb_state EXCEPT !.shift_r = ~up]
    BY <1>1, <1>3, KeyTable DEF StateAfter
  <2>2. /\ kb.shift_r = ~up /\ kb.shift_l = kb_state.shift_l
        /\ kb.caps_lock = kb_state.caps_lock /\ kb.num_lock = kb_state.num_lock
    BY <2>1 DEF KbStates
  <2> QED
    BY <1>1, <1>3, <2>2 DEF KbMods, Pressed, ModNames
<1>4. CASE k = "caps"
  <2>1. kb = IF up THEN kb_state ELSE [kb_state EXCEPT !.caps_lock = ~@]
    BY <1>1, <1>4, KeyTable DEF StateAfter
  <2>2. /\ kb.caps_lock = (IF up THEN kb_state.caps_lock ELSE ~kb_state.caps_lock)
        /\ kb.shift_r = kb_state.shift_r
        /\ kb.shift_l = kb_state.shift_l /\ kb.num_lock = kb_state.num_lock
    BY <2>1 DEF KbStates
  <2> QED
    BY <1>1, <1>4, <2>2 DEF KbMods, Pressed, ModNames
<1>5. CASE k = "num"
  <2>1. kb = IF up THEN kb_state ELSE [kb_state EXCEPT !.num_lock = ~@]
    BY <1>1, <1>5, KeyTable DEF StateAfter
  <2>2. /\ kb.num_lock = (IF up THEN kb_state.num_lock ELSE ~kb_state.num_lock)
        /\ kb.shift_r = kb_state.shift_r
        /\ kb.shift_l = kb_state.shift_l /\ kb.caps_lock = kb_state.caps_lock
    BY <2>1 DEF KbStates
  <2> QED
    BY <1>1, <1>5, <2>2 DEF KbMods, Pressed, ModNames
<1>6. CASE k \notin ModNames
  <2>1. key \notin {"SHIFT_L", "SHIFT_R", "CAPS_LOCK", "NUM_LOCK"}
    BY <1>6, KeyTable, KeymapRows, ExtendedRows DEF RegularKeys, Keys, Special, ModNames, Rows
  <2>2. /\ kb.shift_l = kb_state.shift_l /\ kb.shift_r = kb_state.shift_r
        /\ kb.caps_lock = kb_state.caps_lock /\ kb.num_lock = kb_state.num_lock
    BY <1>1, <2>1 DEF StateAfter, KbStates
  <2> QED
    BY <1>1, <1>6, <2>2 DEF KbMods, Pressed, ModNames
<1> QED
  BY <1>2, <1>3, <1>4, <1>5, <1>6 DEF ModNames

\* What the keys of the pad stand for.
LEMMA PadValues ==
    /\ DOMAIN PadFixed = {"PAD_STAR", "PAD_ENTER"} /\ PadFixed["PAD_STAR"] = "*"
    /\ PadFixed["PAD_ENTER"] = "ENTER"
    /\ DOMAIN PadNum = {"PAD_END", "PAD_UP"} /\ PadNum["PAD_END"] = "1" /\ PadNum["PAD_UP"] = "8"
    /\ PadNav["PAD_END"] = "END" /\ PadNav["PAD_UP"] = "UP"
    /\ DOMAIN FKeys = {"F1", "F2", "F12"}
BY DEF PadFixed, PadNum, PadNav, FKeys

\* The driver puts into the queue what the key writes.
LEMMA KeyWritten ==
    ASSUME kb_state \in KbStates, NEW k \in RegularKeys, NEW up \in BOOLEAN, NEW key,
           key = KeyOf(<<RowOf(k), up>>, k \in DOMAIN Extended)
    PROVE  Enqueued(process_numpad_key(key)) = Written(KbMods(kb_state), k)
<1>1. PICK M : M = KbMods(kb_state)
  OBVIOUS
<1> DEFINE shift == kb_state.shift_l \/ kb_state.shift_r
<1>2. shift <=> M \cap {"shift_l", "shift_r"} # {}
  BY <1>1, KbModsFacts
<1>3. ("caps" \in M <=> kb_state.caps_lock) /\ ("num" \in M <=> kb_state.num_lock)
  BY <1>1, KbModsFacts
<1>4. CASE k = "a"
  <2>1. key = IF shift # kb_state.caps_lock THEN "A" ELSE "a"
    BY <1>2, <1>4, KeyTable
  <2>2. Enqueued(process_numpad_key(key)) = <<key>>
    BY <2>1, PadValues DEF process_numpad_key, Enqueued, ExtKeys
  <2>3. Written(M, k) = IF shift # ("caps" \in M) THEN <<"A">> ELSE <<"a">>
    BY <1>2, <1>4 DEF Written
  <2>4. kb_state.caps_lock = ("caps" \in M)
    BY <1>3 DEF KbStates
  <2>5. CASE shift # ("caps" \in M)
    BY <1>1, <2>1, <2>2, <2>3, <2>4, <2>5
  <2>6. CASE ~(shift # ("caps" \in M))
    BY <1>1, <2>1, <2>2, <2>3, <2>4, <2>6
  <2> QED
    BY <2>5, <2>6
<1>5. CASE k = "one"
  <2>1. key = IF shift THEN "!" ELSE "1"
    BY <1>2, <1>5, KeyTable
  <2>2. Enqueued(process_numpad_key(key)) = <<key>>
    BY <2>1, PadValues DEF process_numpad_key, Enqueued, ExtKeys
  <2>3. Written(M, k) = IF shift THEN <<"!">> ELSE <<"1">>
    BY <1>2, <1>5 DEF Written
  <2> QED
    BY <1>1, <2>1, <2>2, <2>3
<1>6. CASE k = "end"
  <2>1. key = IF shift THEN "1" ELSE "PAD_END"
    BY <1>2, <1>6, KeyTable
  <2>2. Enqueued(process_numpad_key(key)) = IF shift \/ kb_state.num_lock THEN <<"1">> ELSE << >>
    BY <2>1, PadValues DEF process_numpad_key, Enqueued, ExtKeys
  <2>3. Written(M, k) = IF shift \/ "num" \in M THEN <<"1">> ELSE << >>
    BY <1>2, <1>6 DEF Written
  <2> QED
    BY <1>1, <1>3, <2>2, <2>3
<1>7. CASE k = "up"
  <2>1. key = IF shift THEN "8" ELSE "PAD_UP"
    BY <1>2, <1>7, KeyTable
  <2>2. Enqueued(process_numpad_key(key)) = IF shift \/ kb_state.num_lock THEN <<"8">> ELSE << >>
    BY <2>1, PadValues DEF process_numpad_key, Enqueued, ExtKeys
  <2>3. Written(M, k) = IF shift \/ "num" \in M THEN <<"8">> ELSE << >>
    BY <1>2, <1>7 DEF Written
  <2> QED
    BY <1>1, <1>3, <2>2, <2>3
<1>8. CASE k \in {"star", "enter", "pad_enter", "backspace"}
  <2>1. /\ k = "star" => key = "PAD_STAR"
        /\ k = "enter" => key = "ENTER"
        /\ k = "pad_enter" => key = "PAD_ENTER"
        /\ k = "backspace" => key = "BACKSPACE"
    BY KeyTable
  <2>2. Enqueued(process_numpad_key(key)) = IF k = "star" THEN <<"*">> ELSE
                        IF k = "backspace" THEN <<"bs">> ELSE <<"nl">>
    BY <1>8, <2>1, PadValues DEF process_numpad_key, Enqueued, ExtKeys
  <2>3. Written(M, k) = IF k = "star" THEN <<"*">> ELSE
                        IF k = "backspace" THEN <<"bs">> ELSE <<"nl">>
    BY <1>8 DEF Written
  <2> QED
    BY <1>1, <2>2, <2>3
<1>9. CASE k \notin {"a", "one", "end", "up", "star", "enter", "pad_enter", "backspace"}
  <2>1. key \in (ExtKeys \cup DOMAIN FKeys) \ {"SHIFT"}
    BY <1>9, KeyTable, KeymapRows, ExtendedRows, PadValues DEF RegularKeys, Keys, Special, Rows, ExtKeys
  <2>2. Enqueued(process_numpad_key(key)) = << >>
    BY <2>1, PadValues DEF process_numpad_key, Enqueued, ExtKeys
  <2>3. Written(M, k) = << >>
    BY <1>9 DEF Written
  <2> QED
    BY <1>1, <2>2, <2>3
<1> QED
  BY <1>4, <1>5, <1>6, <1>7, <1>8, <1>9

\* What may be in a queue of keys.
Syms == {keymap[r][c] : r \in Rows, c \in 1 .. 3} \cup Chars \cup {"ENTER", "END", "UP"}

\* What process_regular_key enqueues is one of them.
LEMMA KeyType ==
    ASSUME kb_state \in KbStates, NEW b \in Bytes, NEW e0 \in BOOLEAN
    PROVE  /\ KeyOf(b, e0) \in Syms
           /\ process_numpad_key(KeyOf(b, e0)) \in Syms
           /\ Enqueued(process_numpad_key(KeyOf(b, e0))) \in Seq(Syms)
<1>1. PICK r \in Rows : r = b[1]
  BY DEF Bytes
<1>2. PICK c \in 1 .. 3 : KeyOf(b, e0) = keymap[r][c]
  BY <1>1 DEF KeyOf
<1>3. KeyOf(b, e0) \in Syms
  BY <1>2 DEF Syms
<1>4. PICK key \in Syms : key = KeyOf(b, e0)
  BY <1>3
<1>5. {"*", "ENTER", "1", "8", "END", "UP", "nl", "bs"} \subseteq Syms
  BY DEF Syms, Chars, Printable
<1>6. PICK x \in Syms : x = process_numpad_key(key)
  BY <1>5, PadValues DEF process_numpad_key
<1>7. Enqueued(x) \in {<<"nl">>, <<"bs">>, << >>, <<x>>}
  BY DEF Enqueued
<1>8. {<<"nl">>, <<"bs">>, << >>, <<x>>} \subseteq Seq(Syms)
  BY <1>5
<1> QED
  BY <1>3, <1>4, <1>6, <1>7, <1>8

LEMMA WrittenType == ASSUME NEW M, NEW k PROVE Written(M, k) \in Seq(Syms)
<1>1. {"A", "a", "!", "1", "8", "*", "nl", "bs"} \subseteq Syms
  BY DEF Syms, Chars, Printable
<1>2. {<<"A">>, <<"a">>, <<"!">>, <<"1">>, <<"8">>, <<"*">>, <<"nl">>, <<"bs">>, << >>} \subseteq Seq(Syms)
  BY <1>1
<1>3. Written(M, k) \in {<<"A">>, <<"a">>, <<"!">>, <<"1">>, <<"8">>, <<"*">>, <<"nl">>, <<"bs">>, << >>}
  BY DEF Written
<1> QED
  BY <1>2, <1>3

-----------------------------------------------------------------------------
(* Types *)

\* The types of a terminal and of a process, and of all variables.
TtyRecord == [key_buf : Seq(Syms), tty_procnr : Readers \cup {NoReader},
              tty_left_cnt : Nat, tty_trans_cnt : Nat]
Pcs == [at : {"keyboard_read", "set_leds", "dev_write", "resume", "receive"}, tty : Ttys]
ReaderRecord == [suspended : BOOLEAN, asked : Nat, cnt : Nat, buf : Seq(Syms), line : Seq(Syms)]

DriverTypes ==
    /\ wire \in Seq(Bytes) /\ text \in Seq(Keys \X BOOLEAN)
    /\ cell \in [Cells -> Bytes] /\ code \in Seq(Bytes) /\ kb_state \in KbStates
    /\ count \in 0 .. LEN_KB_IN_BUFFER /\ p_head \in Cells /\ p_tail \in Cells
    /\ skipping \in BOOLEAN /\ dropped \in BOOLEAN /\ meant \in Seq(Syms)
TaskTypes ==
    /\ pc \in Pcs
    /\ current_console \in Ttys
    /\ tty \in [Ttys -> TtyRecord]
    /\ \A t \in Ttys : Len(tty[t].key_buf) <= TTY_QUEUE_SIZE
    /\ reader \in [Readers -> ReaderRecord]
Types == DriverTypes /\ TaskTypes

LEMMA SymsFacts == {"nl", "bs", nul} \cup Printable \subseteq Syms
BY DEF Syms, Chars

LEMMA CellsFacts ==
    /\ LEN_KB_IN_BUFFER \in Nat \ {0} /\ KB_BUF \in Nat /\ 0 \in Cells
    /\ \A p \in Cells : p \in Nat /\ Advance(p) \in Cells
BY KeyboardAssumption DEF Cells, Advance

LEMMA TtysFacts ==
    /\ 0 \in Ttys /\ 1 \in Ttys
    /\ \A t \in Ttys : t \in Nat
    /\ TTY_QUEUE_SIZE \in Nat \ {0}
BY TerminalAssumption DEF Ttys

\* The first element of a sequence and the rest.
LEMMA HeadTail ==
    ASSUME NEW S, NEW s \in Seq(S), s # << >>
    PROVE  Head(s) \in S /\ Tail(s) \in Seq(S) /\ Len(Tail(s)) = Len(s) - 1 /\ Len(s) \in Nat \ {0}
<1>1. Len(s) \in Nat \ {0}
  OBVIOUS
<1> QED
  BY <1>1, HeadTailProperties

LEMMA RegularByteType ==
    ASSUME NEW g \in Seq(Bytes), g # << >>
    PROVE  RegularByte(g) \in Bytes /\ code_with_E0(g) \in BOOLEAN
<1>1. Len(g) \in Nat \ {0}
  OBVIOUS
<1>2. g[Len(g)] \in Bytes
  BY <1>1, ElementOfSeq
<1> QED
  BY <1>2, SpecialBytes DEF RegularByte, Last, code_with_E0

LEMMA EmptyByte == Empty \in Bytes
BY DEF Empty, Byte, Bytes, Rows

LEMMA TypesInit == Init => Types
<1> SUFFICES ASSUME Init PROVE Types
  OBVIOUS
<1>1. Empty \in Bytes
  BY EmptyByte
<1>2. wire \in Seq(Bytes) /\ code \in Seq(Bytes) /\ meant \in Seq(Syms)
  BY DEF Init, KeyboardInit
<1>3. kb_state \in KbStates
  BY DEF Init, KeyboardInit, KbStates
<1>4. /\ text \in Seq(Keys \X BOOLEAN) /\ cell \in [Cells -> Bytes]
      /\ count \in 0 .. LEN_KB_IN_BUFFER /\ p_head \in Cells /\ p_tail \in Cells
      /\ skipping \in BOOLEAN /\ dropped \in BOOLEAN
  <2>1. text \in Seq(Keys \X BOOLEAN)
    BY TextsAssumption DEF Init, KeyboardInit
  <2>2. cell \in [Cells -> Bytes]
    BY <1>1 DEF Init, KeyboardInit
  <2>3. 0 \in 0 .. LEN_KB_IN_BUFFER
    BY CellsFacts
  <2> QED
    BY <2>1, <2>2, <2>3, CellsFacts DEF Init, KeyboardInit
<1>5. /\ current_console \in Ttys
      /\ pc \in Pcs
  BY TtysFacts DEF Init, Pcs
<1>6. << >> \in Seq(Syms) /\ Len(<< >>) = 0
  OBVIOUS
<1>7. tty \in [Ttys -> TtyRecord] /\ \A t \in Ttys : Len(tty[t].key_buf) <= TTY_QUEUE_SIZE
  <2>1. [key_buf |-> << >>, tty_procnr |-> NoReader, tty_left_cnt |-> 0, tty_trans_cnt |-> 0]
             \in TtyRecord
    BY <1>6 DEF TtyRecord
  <2>2. tty \in [Ttys -> TtyRecord] /\ \A t \in Ttys : tty[t].key_buf = << >>
    BY <2>1 DEF Init
  <2> QED
    BY <1>6, <2>2, TtysFacts
<1>8. reader \in [Readers -> ReaderRecord]
  BY <1>6 DEF Init, ReaderRecord
<1> QED
  BY <1>2, <1>3, <1>4, <1>5, <1>7, <1>8 DEF Types, DriverTypes, TaskTypes

\* Each action of the driver keeps the types.
LEMMA TypesType ==
    ASSUME Types, Type, UNCHANGED <<pc, current_console, tty, reader>>
    PROVE  Types'
<1>1. PICK x \in Keys \X BOOLEAN : x = Head(text) /\ Tail(text) \in Seq(Keys \X BOOLEAN)
  BY HeadTail DEF Types, DriverTypes, Type
<1>2. PICK k \in Keys, up \in BOOLEAN : k = x[1] /\ up = x[2]
  OBVIOUS
<1>3. wire' \in Seq(Bytes)
  BY <1>1, <1>2, CodesType DEF Type
<1>4. meant' \in Seq(Syms)
  <2>1. Meaning(k) \in Seq(Syms)
    BY MeaningWritten, WrittenType
  <2>2. meant \o Meaning(k) \in Seq(Syms)
    BY <2>1, ConcatProperties DEF Types, DriverTypes
  <2> QED
    BY <1>1, <1>2, <2>2 DEF Type, Types, DriverTypes
<1> QED
  BY <1>1, <1>3, <1>4 DEF Types, DriverTypes, TaskTypes, Type

LEMMA TypesHandler ==
    ASSUME Types, keyboard_handler, UNCHANGED <<pc, current_console, tty, reader>>
    PROVE  Types'
<1>1. Head(wire) \in Bytes /\ Tail(wire) \in Seq(Bytes)
  BY HeadTail DEF Types, DriverTypes, keyboard_handler
<1>2. << >> \in Seq(Syms)
  OBVIOUS
<1>3. /\ cell' \in [Cells -> Bytes] /\ count' \in 0 .. LEN_KB_IN_BUFFER /\ p_head' \in Cells
      /\ dropped' \in BOOLEAN /\ meant' \in Seq(Syms)
  <2>1. CASE count < LEN_KB_IN_BUFFER
    <3>1. /\ count' = count + 1 /\ cell' = [cell EXCEPT ![p_head] = Head(wire)]
          /\ p_head' = Advance(p_head) /\ dropped' = dropped /\ meant' = meant
      BY <2>1 DEF keyboard_handler, Drop, Types, DriverTypes
    <3>2. count' \in 0 .. LEN_KB_IN_BUFFER
      BY <2>1, <3>1, CellsFacts DEF Types, DriverTypes
    <3> QED
      BY <1>1, <3>1, <3>2, CellsFacts DEF Types, DriverTypes
  <2>2. CASE ~(count < LEN_KB_IN_BUFFER)
    BY <1>2, <2>2 DEF keyboard_handler, Drop, Types, DriverTypes
  <2> QED
    BY <2>1, <2>2
<1>4. DriverTypes'
  BY <1>1, <1>3 DEF Types, DriverTypes, keyboard_handler
<1> QED
  BY <1>4 DEF Types, TaskTypes

LEMMA TypesRead ==
    ASSUME Types, keyboard_read
    PROVE  Types'
<1>0. << >> \in Seq(Syms) /\ << >> \in Seq(Bytes) /\ Empty \in Bytes
  BY EmptyByte
<1>1. PICK g : g = Append(code, cell[p_tail])
  OBVIOUS
<1>2. g \in Seq(Bytes) /\ g # << >>
  <2>1. cell[p_tail] \in Bytes
    BY DEF Types, DriverTypes
  <2>2. Len(g) = Len(code) + 1 /\ g \in Seq(Bytes)
    BY <1>1, <2>1, AppendProperties DEF Types, DriverTypes
  <2>3. Len(code) \in Nat
    BY DEF Types, DriverTypes
  <2>4. Len(g) # 0
    BY <2>2, <2>3
  <2> QED
    BY <2>2, <2>4
<1>3. /\ cell' \in [Cells -> Bytes] /\ count' \in 0 .. LEN_KB_IN_BUFFER /\ p_tail' \in Cells
      /\ wire' \in Seq(Bytes) /\ text' \in Seq(Keys \X BOOLEAN) /\ p_head' \in Cells
      /\ reader' \in [Readers -> ReaderRecord]
  <2>1. count > 0 /\ count' = count - 1 /\ p_tail' = Advance(p_tail) /\ cell' = [cell EXCEPT ![p_tail] = Empty]
    BY DEF keyboard_read, get_byte_from_kb_buf
  <2>2. count' \in 0 .. LEN_KB_IN_BUFFER
    BY <2>1, CellsFacts DEF Types, DriverTypes
  <2> QED
    BY <1>0, <2>1, <2>2, CellsFacts DEF Types, DriverTypes, TaskTypes, keyboard_read
<1>4. CASE Unfinished(g)
  <2>1. code' = g /\ UNCHANGED <<kb_state, skipping, meant, dropped, pc, current_console, tty>>
    BY <1>1, <1>4 DEF keyboard_read
  <2> QED
    BY <1>2, <1>3, <2>1 DEF Types, DriverTypes, TaskTypes
<1>5. CASE ~Unfinished(g)
  <2>1. code' = << >> /\ ProcessCode(pc.tty, g)
    BY <1>1, <1>5 DEF keyboard_read
  <2>2. ASSUME NEW b, Drop(b) PROVE dropped' \in BOOLEAN /\ meant' \in Seq(Syms)
    BY <1>0, <2>2 DEF Drop, Types, DriverTypes
  <2>3. CASE g \in Specials \/ skipping
    <3>1. /\ skipping' = TRUE /\ Drop(g \notin Specials)
          /\ UNCHANGED <<kb_state, pc, tty, current_console>>
      BY <2>1, <2>3 DEF ProcessCode
    <3>2. dropped' \in BOOLEAN /\ meant' \in Seq(Syms)
      BY <2>2, <3>1
    <3> QED
      BY <1>0, <1>3, <2>1, <3>1, <3>2 DEF Types, DriverTypes, TaskTypes
  <2>4. CASE ~(g \in Specials \/ skipping)
    <3>1. PICK b \in Bytes : b = RegularByte(g)
      BY <1>2, RegularByteType
    <3>2. PICK key \in Syms : /\ key = KeyOf(b, code_with_E0(g))
                              /\ process_numpad_key(key) \in Syms
                              /\ Enqueued(process_numpad_key(key)) \in Seq(Syms)
      BY <1>2, RegularByteType, KeyType DEF Types, DriverTypes
    <3>3. PICK up \in BOOLEAN : up = b[2]
      BY DEF Bytes
    <3>4. /\ skipping' = FALSE /\ kb_state' = StateAfter(key, ~up)
          /\ pc' = IF ~up /\ key \in LockKeys THEN [pc EXCEPT !.at = "set_leds"] ELSE pc
          /\ IF ~up THEN tty_process_key(pc.tty, process_numpad_key(key))
                    ELSE Drop(FALSE) /\ UNCHANGED <<tty, current_console>>
      BY <2>1, <2>4, <3>1, <3>2, <3>3 DEF ProcessCode
    <3>5. kb_state' \in KbStates /\ pc' \in Pcs
      <4>1. kb_state' \in KbStates
        BY <3>4, StateAfterType DEF Types, DriverTypes
      <4>2. pc' = pc \/ pc' = [pc EXCEPT !.at = "set_leds"]
        BY <3>4
      <4>3. pc' \in Pcs
        BY <4>2 DEF Types, TaskTypes, Pcs
      <4> QED
        BY <4>1, <4>3
    <3>6. CASE up
      <4>1. Drop(FALSE) /\ UNCHANGED <<tty, current_console>>
        BY <3>4, <3>6
      <4>2. dropped' \in BOOLEAN /\ meant' \in Seq(Syms)
        BY <2>2, <4>1
      <4> QED
        BY <1>0, <1>3, <2>1, <3>4, <3>5, <4>1, <4>2 DEF Types, DriverTypes, TaskTypes
    <3>7. CASE ~up
      <4>0. PICK x \in Syms, s \in Seq(Syms) : x = process_numpad_key(key) /\ s = Enqueued(x)
        BY <3>2
      <4>1. tty_process_key(pc.tty, x)
        BY <3>4, <3>7, <4>0
      <4>2. PICK t \in Ttys : t = pc.tty
        BY DEF Types, TaskTypes, Pcs
      <4>3. tty_key_enqueue(t, s)
        BY <4>0, <4>1, <4>2 DEF tty_process_key
      <4>4. current_console' \in Ttys
        BY <4>1 DEF tty_process_key, Types, TaskTypes
      <4>5. PICK bit : Drop(bit)
        BY <4>3 DEF tty_key_enqueue
      <4>6. dropped' \in BOOLEAN /\ meant' \in Seq(Syms)
        BY <2>2, <4>5
      <4>7. tty' \in [Ttys -> TtyRecord] /\ \A u \in Ttys : Len(tty'[u].key_buf) <= TTY_QUEUE_SIZE
        <5>1. CASE UNCHANGED tty
          BY <5>1 DEF Types, TaskTypes
        <5>2. CASE /\ Len(tty[t].key_buf \o s) <= TTY_QUEUE_SIZE
                   /\ tty' = [tty EXCEPT ![t].key_buf = @ \o s]
          <6>1. tty[t].key_buf \o s \in Seq(Syms)
            BY ConcatProperties DEF Types, TaskTypes, TtyRecord
          <6>2. PICK q \in Seq(Syms) : q = tty[t].key_buf \o s
            BY <6>1
          <6>3. tty' = [tty EXCEPT ![t].key_buf = q] /\ Len(q) <= TTY_QUEUE_SIZE
            BY <5>2, <6>2
          <6> QED
            BY <6>3 DEF Types, TaskTypes, TtyRecord
        <5> QED
          BY <4>3, <5>1, <5>2 DEF tty_key_enqueue
      <4> QED
        BY <1>0, <1>3, <2>1, <3>4, <3>5, <4>4, <4>6, <4>7 DEF Types, DriverTypes, TaskTypes
    <3> QED
      BY <3>6, <3>7
  <2> QED
    BY <2>3, <2>4
<1> QED
  BY <1>4, <1>5

-----------------------------------------------------------------------------
(* A key is taken: the counts *)

\* The TTY task is about to end a read of t.
Ending(t) == pc = [at |-> "resume", tty |-> t]

\* Who reads which terminal.
ReadersInv ==
    /\ \A t \in Ttys : tty[t].tty_procnr \in Readers => TtyOf[tty[t].tty_procnr] = t
    /\ \A t \in Ttys : tty[t].tty_left_cnt > 0 =>
          tty[t].tty_procnr \in Readers /\ reader[tty[t].tty_procnr].suspended
    /\ \A p \in Readers : reader[p].suspended =>
          LET d == tty[TtyOf[p]]
          IN  /\ d.tty_procnr \in Readers
              /\ d.tty_procnr = p =>
                    /\ d.tty_left_cnt + d.tty_trans_cnt = reader[p].asked
                    /\ d.tty_left_cnt = 0 => reader[p].asked = 0 \/ Ending(TtyOf[p])
    /\ pc.at = "resume" => /\ tty[pc.tty].tty_procnr \in Readers
                           /\ reader[tty[pc.tty].tty_procnr].suspended

\* What tty_dev_write makes of the counts of a terminal and of the character ch.
Counted(left, trans, ch, l, m) ==
    /\ ch \in Printable => m = trans + 1 /\ l = left - 1
    /\ ch = "bs" /\ trans > 0 => m = trans - 1 /\ l = left + 1
    /\ ch \notin Printable /\ ~(ch = "bs" /\ trans > 0) => m = trans /\ l = left

\* A terminal with another queue, with other counts, and without a read.
LEMMA BufOf ==
    ASSUME NEW d \in TtyRecord, NEW q \in Seq(Syms), NEW e, e = [d EXCEPT !.key_buf = q]
    PROVE  /\ e \in TtyRecord /\ e.key_buf = q /\ e.tty_procnr = d.tty_procnr
           /\ e.tty_left_cnt = d.tty_left_cnt /\ e.tty_trans_cnt = d.tty_trans_cnt
BY DEF TtyRecord

WithCounts(d, l, m) == [d EXCEPT !.tty_trans_cnt = m, !.tty_left_cnt = l]
WithLine(r, l, b) == [r EXCEPT !.line = l, !.buf = b]

LEMMA CountsOf ==
    ASSUME NEW d \in TtyRecord, NEW l \in Nat, NEW m \in Nat
    PROVE  /\ WithCounts(d, l, m) \in TtyRecord
           /\ WithCounts(d, l, m).key_buf = d.key_buf
           /\ WithCounts(d, l, m).tty_procnr = d.tty_procnr
           /\ WithCounts(d, l, m).tty_left_cnt = l
           /\ WithCounts(d, l, m).tty_trans_cnt = m
BY DEF TtyRecord, WithCounts

LEMMA LeftOf ==
    ASSUME NEW d \in TtyRecord, NEW e, e = [d EXCEPT !.tty_left_cnt = 0]
    PROVE  /\ e \in TtyRecord /\ e.key_buf = d.key_buf /\ e.tty_procnr = d.tty_procnr
           /\ e.tty_left_cnt = 0 /\ e.tty_trans_cnt = d.tty_trans_cnt
BY DEF TtyRecord

\* A key that nobody waits for is taken and forgotten.
LEMMA TakeKeyIdle ==
    ASSUME Types, NEW t \in Ttys, tty[t].key_buf # << >>, TakeKey(t), tty[t].tty_left_cnt = 0
    PROVE  /\ tty' \in [Ttys -> TtyRecord] /\ reader' = reader /\ pc' = pc
           /\ \A u \in Ttys \ {t} : tty'[u] = tty[u]
           /\ tty'[t].key_buf = Tail(tty[t].key_buf)
           /\ tty'[t].tty_procnr = tty[t].tty_procnr
           /\ tty'[t].tty_left_cnt = tty[t].tty_left_cnt
           /\ tty'[t].tty_trans_cnt = tty[t].tty_trans_cnt
<1>0. tty[t] \in TtyRecord /\ tty[t].key_buf \in Seq(Syms)
  BY DEF Types, TaskTypes, TtyRecord
<1>1. PICK q \in Seq(Syms) : q = Tail(tty[t].key_buf)
  BY <1>0, HeadTail
<1>2. PICK rest \in TtyRecord :
         /\ rest = [tty[t] EXCEPT !.key_buf = Tail(@)]
         /\ rest.key_buf = q /\ rest.tty_procnr = tty[t].tty_procnr
         /\ rest.tty_left_cnt = tty[t].tty_left_cnt
         /\ rest.tty_trans_cnt = tty[t].tty_trans_cnt
  <2>1. PICK rest : rest = [tty[t] EXCEPT !.key_buf = q]
    OBVIOUS
  <2>2. rest = [tty[t] EXCEPT !.key_buf = Tail(@)]
    BY <1>0, <1>1, <2>1
  <2> QED
    BY <1>0, <2>1, <2>2, BufOf
<1>3. tty' = [tty EXCEPT ![t] = rest] /\ reader' = reader /\ pc' = pc
  BY <1>2 DEF TakeKey
<1> QED
  BY <1>1, <1>2, <1>3 DEF Types, TaskTypes

\* A key that is taken changes the counts as Counted says.
LEMMA TakenCounts ==
    ASSUME NEW rest \in TtyRecord, NEW ch, rest.tty_left_cnt > 0
    PROVE  \E l \in Nat, m \in Nat :
             /\ Counted(rest.tty_left_cnt, rest.tty_trans_cnt, ch, l, m)
             /\ Taken(rest, ch) \in TtyRecord
             /\ Taken(rest, ch).key_buf = rest.key_buf
             /\ Taken(rest, ch).tty_procnr = rest.tty_procnr
             /\ Taken(rest, ch).tty_left_cnt = l /\ Taken(rest, ch).tty_trans_cnt = m
<1>0. "bs" \notin Printable
  BY DEF Printable
<1>1. PICK left \in Nat \ {0}, trans \in Nat :
         left = rest.tty_left_cnt /\ trans = rest.tty_trans_cnt
  BY DEF TtyRecord
<1>2. ASSUME NEW l \in Nat, NEW m \in Nat, Counted(left, trans, ch, l, m),
             Taken(rest, ch) = WithCounts(rest, l, m)
      PROVE  \E i \in Nat, j \in Nat :
             /\ Counted(left, trans, ch, i, j)
             /\ Taken(rest, ch) \in TtyRecord
             /\ Taken(rest, ch).key_buf = rest.key_buf
             /\ Taken(rest, ch).tty_procnr = rest.tty_procnr
             /\ Taken(rest, ch).tty_left_cnt = i /\ Taken(rest, ch).tty_trans_cnt = j
  <2>1. PICK d : d = Taken(rest, ch)
    OBVIOUS
  <2>2. /\ d \in TtyRecord /\ d.key_buf = rest.key_buf /\ d.tty_procnr = rest.tty_procnr
        /\ d.tty_left_cnt = l /\ d.tty_trans_cnt = m
    <3>1. d = WithCounts(rest, l, m)
      BY <1>2, <2>1
    <3>2. d \in TtyRecord /\ d.key_buf = rest.key_buf
      <4>1. WithCounts(rest, l, m) \in TtyRecord /\ WithCounts(rest, l, m).key_buf = rest.key_buf
        BY CountsOf
      <4> QED
        BY <3>1, <4>1, Zenon
    <3>3. d.tty_procnr = rest.tty_procnr
      <4>1. WithCounts(rest, l, m).tty_procnr = rest.tty_procnr
        BY CountsOf
      <4> QED
        BY <3>1, <4>1, Zenon
    <3>4. d.tty_left_cnt = l /\ d.tty_trans_cnt = m
      <4>1. WithCounts(rest, l, m).tty_left_cnt = l
        BY CountsOf
      <4>2. WithCounts(rest, l, m).tty_trans_cnt = m
        BY CountsOf
      <4> QED
        BY <3>1, <4>1, <4>2, Zenon
    <3> QED
      BY <3>2, <3>3, <3>4
  <2> QED
    BY <1>2, <2>1, <2>2
<1>3. CASE ch \in Printable
  <2>1. PICK l \in Nat, m \in Nat : l = left - 1 /\ m = trans + 1
    OBVIOUS
  <2>2. Taken(rest, ch) = WithCounts(rest, l, m)
    BY <1>1, <1>3, <2>1 DEF Taken, TtyRecord, WithCounts
  <2>3. Counted(left, trans, ch, l, m)
    BY <1>0, <1>3, <2>1 DEF Counted
  <2> QED
    BY <1>1, <1>2, <2>2, <2>3
<1>4. CASE ch = "bs" /\ trans > 0
  <2>1. PICK l \in Nat, m \in Nat : l = left + 1 /\ m = trans - 1
    BY <1>4
  <2>2. Taken(rest, ch) = WithCounts(rest, l, m)
    BY <1>0, <1>1, <1>4, <2>1 DEF Taken, TtyRecord, WithCounts
  <2>3. Counted(left, trans, ch, l, m)
    BY <1>0, <1>4, <2>1 DEF Counted
  <2> QED
    BY <1>1, <1>2, <2>2, <2>3
<1>5. CASE ch \notin Printable /\ ~(ch = "bs" /\ trans > 0)
  <2>1. Taken(rest, ch) = rest
    BY <1>1, <1>5 DEF Taken
  <2>2. Counted(left, trans, ch, left, trans)
    BY <1>5 DEF Counted
  <2> QED
    BY <1>1, <2>1, <2>2
<1> QED
  BY <1>3, <1>4, <1>5

\* Process r becomes s when ch is copied to it behind trans characters.
GivenTo(r, s, trans, ch) ==
    /\ s.line = Append(r.line, ch) /\ s.asked = r.asked
    /\ s.buf = IF ch \in Printable THEN [r.buf EXCEPT ![trans + 1] = ch] ELSE r.buf

\* The TTY task takes ch from the queue of t for process p.
TakesFor(t, p, ch, l, m, ends) ==
    /\ Counted(tty[t].tty_left_cnt, tty[t].tty_trans_cnt, ch, l, m)
    /\ ends <=> ch = "nl" \/ l = 0
    /\ tty' \in [Ttys -> TtyRecord]
    /\ \A u \in Ttys \ {t} : tty'[u] = tty[u]
    /\ tty'[t].key_buf = Tail(tty[t].key_buf)
    /\ tty'[t].tty_procnr = p
    /\ tty'[t].tty_left_cnt = l
    /\ tty'[t].tty_trans_cnt = m
    /\ reader' \in [Readers -> ReaderRecord]
    /\ \A u \in Readers \ {p} : reader'[u] = reader[u]
    /\ GivenTo(reader[p], reader'[p], tty[t].tty_trans_cnt, ch)
    /\ reader'[p].suspended = reader[p].suspended /\ reader'[p].cnt = reader[p].cnt
    /\ pc' = IF ends THEN [pc EXCEPT !.at = "resume"] ELSE pc

\* A key is taken for the process that reads the terminal.
LEMMA TakeKeyRead ==
    ASSUME Types, NEW t \in Ttys, tty[t].key_buf # << >>, TakeKey(t), tty[t].tty_left_cnt > 0,
           NEW p \in Readers, p = tty[t].tty_procnr,
           NEW ch, ch = Head(tty[t].key_buf)
    PROVE  \E l \in Nat, m \in Nat, ends \in BOOLEAN : TakesFor(t, p, ch, l, m, ends)
<1>0. tty[t] \in TtyRecord /\ tty[t].key_buf \in Seq(Syms)
  BY DEF Types, TaskTypes, TtyRecord
<1>1. PICK q \in Seq(Syms) : q = Tail(tty[t].key_buf) /\ ch \in Syms
  BY <1>0, HeadTail
<1>2. PICK left \in Nat \ {0}, trans \in Nat : left = tty[t].tty_left_cnt /\ trans = tty[t].tty_trans_cnt
  BY <1>0 DEF TtyRecord
<1>3. PICK rest \in TtyRecord :
         /\ rest = [tty[t] EXCEPT !.key_buf = Tail(@)]
         /\ rest.key_buf = q /\ rest.tty_procnr = p
         /\ rest.tty_left_cnt = left /\ rest.tty_trans_cnt = trans
  <2>1. PICK rest : rest = [tty[t] EXCEPT !.key_buf = q]
    OBVIOUS
  <2>2. rest = [tty[t] EXCEPT !.key_buf = Tail(@)]
    BY <1>0, <1>1, <2>1
  <2> QED
    BY <1>0, <1>2, <2>1, <2>2, BufOf
<1>4. PICK l \in Nat, m \in Nat :
         /\ Counted(left, trans, ch, l, m)
         /\ Taken(rest, ch) \in TtyRecord
         /\ Taken(rest, ch).key_buf = q /\ Taken(rest, ch).tty_procnr = p
         /\ Taken(rest, ch).tty_left_cnt = l /\ Taken(rest, ch).tty_trans_cnt = m
  <2>1. /\ rest \in TtyRecord /\ rest.key_buf = q /\ rest.tty_procnr = p
        /\ rest.tty_left_cnt = left /\ rest.tty_trans_cnt = trans /\ left > 0
    BY <1>2, <1>3
  <2> QED
    BY <2>1, TakenCounts
<1>5. PICK d \in TtyRecord : /\ d = Taken(rest, ch) /\ d.key_buf = q /\ d.tty_procnr = p
                             /\ d.tty_left_cnt = l /\ d.tty_trans_cnt = m
  BY <1>4
<1>6. PICK ends \in BOOLEAN : ends <=> ch = "nl" \/ l = 0
  OBVIOUS
<1>7. /\ tty' = [tty EXCEPT ![t] = d]
      /\ reader' = [reader EXCEPT ![p] = Given(@, ch, trans + 1)]
      /\ pc' = IF ends THEN [pc EXCEPT !.at = "resume"] ELSE pc
  <2>1. rest.tty_left_cnt # 0 /\ rest.tty_procnr = p /\ rest.tty_trans_cnt = trans
    BY <1>2, <1>3
  <2>2. ends <=> ch = "nl" \/ d.tty_left_cnt = 0
    BY <1>5, <1>6
  <2>3. d = Taken(rest, ch) /\ rest = [tty[t] EXCEPT !.key_buf = Tail(@)]
    BY <1>3, <1>5
  <2>4. /\ tty' = [tty EXCEPT ![t] = d]
        /\ reader' = [reader EXCEPT ![rest.tty_procnr] = Given(@, ch, rest.tty_trans_cnt + 1)]
        /\ pc' = IF ch = "nl" \/ d.tty_left_cnt = 0 THEN [pc EXCEPT !.at = "resume"] ELSE pc
    BY <2>1, <2>3, Zenon DEF TakeKey
  <2> QED
    BY <2>1, <2>2, <2>4, Zenon
<1>8. /\ tty' \in [Ttys -> TtyRecord]
      /\ \A u \in Ttys \ {t} : tty'[u] = tty[u]
      /\ tty'[t].key_buf = q /\ tty'[t].tty_procnr = p
      /\ tty'[t].tty_left_cnt = l /\ tty'[t].tty_trans_cnt = m
  BY <1>5, <1>7 DEF Types, TaskTypes
<1>9. reader[p] \in ReaderRecord /\ reader[p].line \in Seq(Syms) /\ reader[p].buf \in Seq(Syms)
  BY DEF Types, TaskTypes, ReaderRecord
<1>10. PICK nline \in Seq(Syms) : nline = Append(reader[p].line, ch)
  BY <1>1, <1>9, AppendProperties
<1>11. PICK nbuf \in Seq(Syms) : nbuf = IF ch \in Printable THEN [reader[p].buf EXCEPT ![trans + 1] = ch]
                                        ELSE reader[p].buf
  <2>1. PICK s \in Seq(Syms) : s = reader[p].buf
    BY <1>9
  <2>2. [s EXCEPT ![trans + 1] = ch] \in Seq(Syms)
    <3>1. CASE trans + 1 \in 1 .. Len(s)
      BY <1>1, <3>1, ExceptSeq
    <3>2. CASE trans + 1 \notin 1 .. Len(s)
      <4>1. [s EXCEPT ![trans + 1] = ch] = s
        BY <3>2
      <4> QED
        BY <4>1
    <3> QED
      BY <3>1, <3>2
  <2> QED
    BY <2>1, <2>2
<1>13. /\ reader' \in [Readers -> ReaderRecord]
       /\ \A u \in Readers \ {p} : reader'[u] = reader[u]
       /\ reader'[p].line = nline /\ reader'[p].suspended = reader[p].suspended
       /\ reader'[p].asked = reader[p].asked /\ reader'[p].cnt = reader[p].cnt
       /\ reader'[p].buf = nbuf
  <2>2. PICK r \in ReaderRecord : r = reader[p]
    BY <1>9
  <2>3. PICK e : e = WithLine(r, nline, nbuf)
    OBVIOUS
  <2>4. Given(r, ch, trans + 1) = e
    BY <1>10, <1>11, <2>2, <2>3 DEF Given, WithLine, ReaderRecord
  <2>5. /\ e \in ReaderRecord /\ e.line = nline /\ e.buf = nbuf /\ e.suspended = r.suspended
        /\ e.cnt = r.cnt /\ e.asked = r.asked
    <3>1. nline \in Seq(Syms) /\ nbuf \in Seq(Syms) /\ r \in ReaderRecord
      BY <1>10, <1>11, <2>2
    <3>2. e \in ReaderRecord /\ e.line = nline
      BY <2>3, <3>1 DEF WithLine, ReaderRecord
    <3>3. e.buf = nbuf /\ e.suspended = r.suspended
      BY <2>3, <3>1 DEF WithLine, ReaderRecord
    <3>4. e.cnt = r.cnt /\ e.asked = r.asked
      BY <2>3, <3>1 DEF WithLine, ReaderRecord
    <3> QED
      BY <3>2, <3>3, <3>4
  <2>6. reader' = [reader EXCEPT ![p] = e]
    BY <1>7, <2>2, <2>4, Zenon
  <2> QED
    BY <2>2, <2>5, <2>6 DEF Types, TaskTypes
<1>14. GivenTo(reader[p], reader'[p], trans, ch)
  BY <1>10, <1>11, <1>13 DEF GivenTo
<1>15. TakesFor(t, p, ch, l, m, ends)
  <2>1. /\ Counted(tty[t].tty_left_cnt, tty[t].tty_trans_cnt, ch, l, m)
        /\ GivenTo(reader[p], reader'[p], tty[t].tty_trans_cnt, ch)
    BY <1>2, <1>4, <1>14, Zenon
  <2>2. /\ tty'[t].key_buf = Tail(tty[t].key_buf)
        /\ tty'[t].tty_left_cnt = l
    BY <1>1, <1>8, Zenon
  <2> QED
    BY <1>6, <1>7, <1>8, <1>13, <2>1, <2>2, Zenon DEF TakesFor
<1> QED
  BY <1>15

-----------------------------------------------------------------------------
(* The line that keys write *)

\* A set of naturals that has a member has a least one.
LEMMA LeastMember ==
    ASSUME NEW S, S \subseteq Nat, S # {}
    PROVE  \E x \in S : \A y \in S : x <= y
<1> DEFINE R == OpToRel(<, Nat)
<1>1. PICK x \in S : \A y \in S : ~(<<y, x>> \in R)
  <2> HIDE DEF R
  <2>1. IsWellFoundedOn(R, Nat)
    BY NatLessThanWellFounded DEF R
  <2> QED
    BY <2>1, WFMin
<1>2. \A y \in S : x <= y
  <2> TAKE y \in S
  <2>1. ~(y < x)
    BY <1>1 DEF OpToRel
  <2> QED
    BY <2>1
<1> QED
  BY <1>2

\* The lines that the first keys write, up to the n-th.
Lines(keys, n, f) == [i \in 0 .. n |-> IF i = 0 THEN << >> ELSE Edit(f[i - 1], keys[i])]
AreLines(keys, n, f) == f = Lines(keys, n, f)

\* The lines, key by key: they exist and are the only ones.
LEMMA LinesFacts ==
    ASSUME NEW keys, NEW n \in Nat, NEW f, AreLines(keys, n, f)
    PROVE  f[0] = << >> /\ \A i \in 1 .. n : f[i] = Edit(f[i - 1], keys[i])
<1>1. \A i \in 0 .. n : Lines(keys, n, f)[i] = IF i = 0 THEN << >> ELSE Edit(f[i - 1], keys[i])
  BY DEF Lines
<1>2. \A i \in 0 .. n : f[i] = IF i = 0 THEN << >> ELSE Edit(f[i - 1], keys[i])
  BY <1>1, Zenon DEF AreLines
<1>3. 0 \in 0 .. n /\ \A i \in 1 .. n : i \in 0 .. n /\ i # 0
  OBVIOUS
<1> QED
  BY <1>2, <1>3, Zenon

LEMMA LinesExist == ASSUME NEW keys, NEW n \in Nat PROVE \E f : AreLines(keys, n, f)
<1>1. PICK T : T = {i \in Nat : ~\E f : AreLines(keys, i, f)}
  OBVIOUS
<1>2. T = {}
  <2> SUFFICES ASSUME T # {} PROVE FALSE
    OBVIOUS
  <2>1. PICK j \in T : \A i \in T : j <= i
    <3>1. T \subseteq Nat
      BY <1>1
    <3> QED
      BY <3>1, LeastMember
  <2>2. j \in Nat /\ ~\E f : AreLines(keys, j, f)
    BY <1>1, <2>1
  <2>3. j # 0
    <3> SUFFICES ASSUME j = 0 PROVE FALSE
      OBVIOUS
    <3>1. PICK f : f = [i \in 0 .. 0 |-> << >>]
      OBVIOUS
    <3>2. AreLines(keys, j, f)
      BY <3>1 DEF AreLines, Lines
    <3> QED
      BY <2>2, <3>2
  <2>4. j - 1 \in Nat /\ j - 1 \notin T
    BY <2>1, <2>2, <2>3
  <2>5. PICK f : AreLines(keys, j - 1, f)
    BY <1>1, <2>4
  <2>6. f[0] = << >> /\ \A i \in 1 .. j - 1 : f[i] = Edit(f[i - 1], keys[i])
    BY <2>4, <2>5, LinesFacts
  <2>7. PICK g : g = [i \in 0 .. j |-> IF i = j THEN Edit(f[j - 1], keys[j]) ELSE f[i]]
    OBVIOUS
  <2>8. ASSUME NEW i \in 0 .. j
        PROVE  g[i] = IF i = 0 THEN << >> ELSE Edit(g[i - 1], keys[i])
    <3>1. CASE i = 0
      BY <2>2, <2>3, <2>6, <2>7, <3>1
    <3>2. CASE i # 0 /\ i # j
      <4>1. i \in 1 .. j - 1 /\ i - 1 \in 0 .. j /\ i - 1 # j
        BY <2>2, <3>2
      <4>2. g[i] = f[i] /\ g[i - 1] = f[i - 1]
        BY <2>7, <3>2, <4>1
      <4> QED
        BY <2>6, <3>2, <4>1, <4>2
    <3>3. CASE i # 0 /\ i = j
      <4>1. j - 1 \in 0 .. j /\ j - 1 # j /\ j \in 0 .. j
        BY <2>2, <3>3
      <4>2. g[j] = Edit(f[j - 1], keys[j]) /\ g[j - 1] = f[j - 1]
        BY <2>7, <4>1
      <4> QED
        BY <3>3, <4>2
    <3> QED
      BY <3>1, <3>2, <3>3
  <2>9. AreLines(keys, j, g)
    BY <2>7, <2>8 DEF AreLines, Lines
  <2> QED
    BY <2>2, <2>9
<1> QED
  BY <1>1, <1>2

\* f and g are the same from a to n.
Agree(f, g, a, n) == \A i \in a .. n : f[i] = g[i]

LEMMA LinesUnique ==
    ASSUME NEW keys, NEW more, NEW n \in Nat, NEW m \in Nat, n <= m,
           Agree(keys, more, 1, n),
           NEW f, AreLines(keys, n, f), NEW g, AreLines(more, m, g)
    PROVE  Agree(f, g, 0, n)
<1> USE DEF Agree
<1>0. /\ f[0] = << >> /\ \A i \in 1 .. n : f[i] = Edit(f[i - 1], keys[i])
      /\ g[0] = << >> /\ \A i \in 1 .. m : g[i] = Edit(g[i - 1], more[i])
  BY LinesFacts
<1>1. PICK T : T = {i \in 0 .. n : f[i] # g[i]}
  OBVIOUS
<1>2. T = {}
  <2> SUFFICES ASSUME T # {} PROVE FALSE
    OBVIOUS
  <2>1. PICK j \in T : \A i \in T : j <= i
    <3>1. T \subseteq Nat
      BY <1>1
    <3> QED
      BY <3>1, LeastMember
  <2>2. j \in 0 .. n /\ f[j] # g[j]
    BY <1>1, <2>1
  <2>3. j # 0
    BY <1>0, <2>2
  <2>4. j \in 1 .. n /\ j \in 1 .. m /\ j - 1 \in 0 .. n /\ ~(j <= j - 1)
    BY <2>2, <2>3
  <2>5. f[j - 1] = g[j - 1]
    BY <1>1, <2>1, <2>4
  <2> QED
    BY <1>0, <2>2, <2>4, <2>5
<1> QED
  BY <1>1, <1>2

\* Edited is the last of the lines.
LEMMA EditedLines ==
    ASSUME NEW keys, Len(keys) \in Nat
    PROVE  \E f : AreLines(keys, Len(keys), f) /\ Edited(keys) = f[Len(keys)]
<1>1. PICK f : f = CHOOSE h : h = Lines(keys, Len(keys), h)
  OBVIOUS
<1>2. AreLines(keys, Len(keys), f)
  BY <1>1, LinesExist DEF AreLines
<1>3. Edited(keys) = f[Len(keys)]
  BY <1>1 DEF Edited, Lines
<1> QED
  BY <1>2, <1>3

\* No keys write nothing.
LEMMA EditedEmpty == Edited(<< >>) = << >>
<1>1. PICK f : AreLines(<< >>, Len(<< >>), f) /\ Edited(<< >>) = f[Len(<< >>)]
  BY EditedLines
<1>2. Len(<< >>) = 0
  OBVIOUS
<1>3. f[0] = << >>
  BY <1>1, <1>2, LinesFacts
<1> QED
  BY <1>1, <1>2, <1>3

\* One more key edits the line.
LEMMA EditedAppend ==
    ASSUME NEW keys \in Seq(Syms), NEW ch \in Syms
    PROVE  Edited(Append(keys, ch)) = Edit(Edited(keys), ch)
<1>1. PICK more \in Seq(Syms), n \in Nat :
         /\ more = Append(keys, ch) /\ n = Len(keys) /\ Len(more) = n + 1
         /\ \A i \in 1 .. n : more[i] = keys[i]
         /\ more[n + 1] = ch
  <2>1. PICK more : more = Append(keys, ch)
    OBVIOUS
  <2>2. /\ more \in Seq(Syms) /\ Len(more) = Len(keys) + 1 /\ Len(keys) \in Nat
        /\ \A i \in 1 .. Len(keys) : more[i] = keys[i]
        /\ more[Len(keys) + 1] = ch
    BY <2>1, AppendProperties
  <2> QED
    BY <2>1, <2>2
<1>2. PICK f : AreLines(keys, n, f) /\ Edited(keys) = f[n]
  BY <1>1, EditedLines
<1>3. PICK m \in Nat : m = n + 1 /\ m = Len(more) /\ n <= m /\ n \in 0 .. n /\ m \in 1 .. m /\ m - 1 = n
  BY <1>1
<1>4. PICK g : AreLines(more, m, g) /\ Edited(more) = g[m]
  BY <1>1, <1>3, EditedLines
<1>5. \A i \in 1 .. n : keys[i] = more[i]
  BY <1>1
<1>6. f[n] = g[n]
  <2>1. n \in Nat /\ m \in Nat /\ n <= m /\ n \in 0 .. n
    BY <1>1, <1>3
  <2>2. AreLines(keys, n, f) /\ AreLines(more, m, g)
    BY <1>2, <1>4
  <2>3. Agree(keys, more, 1, n)
    BY <1>5 DEF Agree
  <2>4. Agree(f, g, 0, n)
    BY <2>1, <2>2, <2>3, LinesUnique
  <2> QED
    BY <2>1, <2>4 DEF Agree
<1>7. g[m] = Edit(g[m - 1], more[m])
  BY <1>3, <1>4, LinesFacts
<1> QED
  BY <1>1, <1>2, <1>3, <1>4, <1>6, <1>7

-----------------------------------------------------------------------------
(* The reads *)

\* The buffer of a process begins with the line that its keys write.
HoldsLine(r) ==
    LET e == Edited(r.line)
    IN  /\ e \in Seq(Printable) /\ Len(r.buf) = r.asked /\ Len(e) <= r.asked
        /\ \A i \in 1 .. Len(e) : r.buf[i] = e[i]

\* Every process holds the line of its keys, as long as the counts of its
\* terminal say.
LineInv ==
    \A p \in Readers :
        LET r == reader[p]
            n == Len(Edited(r.line))
            d == tty[TtyOf[p]]
        IN  /\ HoldsLine(r)
            /\ ~r.suspended => r.cnt = n
            /\ r.suspended /\ d.tty_procnr = p => d.tty_trans_cnt = n

SumIs(a, b, c) == a + b = c

\* A character that is copied, or a backspace, keeps the buffer and the line
\* equal.
LEMMA GivenLine ==
    ASSUME NEW r \in ReaderRecord, NEW s \in ReaderRecord, NEW ch \in Syms, HoldsLine(r),
           NEW left \in Nat \ {0}, NEW trans \in Nat, NEW l \in Nat, NEW m \in Nat,
           Counted(left, trans, ch, l, m), trans = Len(Edited(r.line)),
           SumIs(left, trans, r.asked), GivenTo(r, s, trans, ch)
    PROVE  HoldsLine(s) /\ m = Len(Edited(s.line)) /\ SumIs(l, m, s.asked)
<1>0. /\ left + trans = r.asked /\ s.line = Append(r.line, ch) /\ s.asked = r.asked
      /\ s.buf = IF ch \in Printable THEN [r.buf EXCEPT ![trans + 1] = ch] ELSE r.buf
  BY DEF SumIs, GivenTo
<1>1. PICK e \in Seq(Printable) : /\ e = Edited(r.line) /\ Len(e) = trans /\ Len(r.buf) = r.asked
                                  /\ \A i \in 1 .. trans : r.buf[i] = e[i]
  BY DEF HoldsLine
<1>2. PICK e2 : e2 = Edited(s.line) /\ e2 = Edit(e, ch)
  <2>1. r.line \in Seq(Syms)
    BY DEF ReaderRecord
  <2> QED
    BY <1>0, <1>1, <2>1, EditedAppend
<1>3. PICK asked \in Nat : asked = r.asked /\ asked = s.asked /\ r.buf \in Seq(Syms)
  BY <1>0 DEF ReaderRecord
<1>4. SUFFICES /\ e2 \in Seq(Printable) /\ Len(s.buf) = asked /\ Len(e2) = m /\ m <= asked
               /\ l + m = asked /\ \A i \in 1 .. m : s.buf[i] = e2[i]
  BY <1>2, <1>3, <1>4 DEF HoldsLine, SumIs
<1>5. CASE ch \in Printable
  <2>1. m = trans + 1 /\ l = left - 1 /\ m <= asked
    BY <1>0, <1>3, <1>5 DEF Counted
  <2>2. e2 = Append(e, ch)
    BY <1>2, <1>5 DEF Edit
  <2>3. /\ e2 \in Seq(Printable) /\ Len(e2) = trans + 1
        /\ \A i \in 1 .. trans : e2[i] = e[i] 
        /\ e2[trans + 1] = ch
    BY <1>1, <1>5, <2>2, AppendProperties
  <2>4. PICK b \in Seq(Syms) : b = r.buf /\ Len(b) = asked
    BY <1>1, <1>3
  <2>5. PICK c : c = [b EXCEPT ![trans + 1] = ch] /\ c = s.buf
    BY <1>0, <1>5, <2>4
  <2>6. trans + 1 \in 1 .. Len(b)
    BY <2>1, <2>4
  <2>7. /\ Len(c) = Len(b)
        /\ \A j \in 1 .. Len(b) : c[j] = IF j = trans + 1 THEN ch ELSE b[j]
    BY <2>4, <2>5, <2>6, ExceptSeq
  <2>8. ASSUME NEW i \in 1 .. m PROVE c[i] = e2[i]
    <3>1. i \in 1 .. Len(b) /\ (i = trans + 1 \/ (i \in 1 .. trans /\ i # trans + 1))
      BY <2>1, <2>6
    <3>2. CASE i = trans + 1
      BY <2>3, <2>7, <3>1, <3>2
    <3>3. CASE i \in 1 .. trans /\ i # trans + 1
      <4>1. c[i] = b[i]
        BY <2>7, <3>1, <3>3
      <4>2. e2[i] = e[i] /\ r.buf[i] = e[i]
        BY <1>1, <2>3, <3>3
      <4> QED
        BY <2>4, <4>1, <4>2
    <3> QED
      BY <3>1, <3>2, <3>3
  <2>9. l + m = asked
    BY <1>0, <1>3, <2>1
  <2> QED
    BY <2>1, <2>3, <2>4, <2>5, <2>7, <2>8, <2>9
<1>6. CASE ch = "bs" /\ trans > 0
  <2>0. "bs" \notin Printable
    BY DEF Printable
  <2>1. m = trans - 1 /\ l = left + 1
    BY <1>6 DEF Counted
  <2>2. e2 = Front(e)
    <3>1. e # << >>
      BY <1>1, <1>6
    <3> QED
      BY <1>2, <1>6, <2>0, <3>1 DEF Edit
  <2>3. e2 = SubSeq(e, 1, m)
    BY <1>1, <2>1, <2>2 DEF Front
  <2>4. \A i \in 1 .. m : e[i] \in Printable
    BY <1>1, <2>1, ElementOfSeq
  <2>5. /\ e2 \in Seq(Printable) /\ Len(e2) = m
        /\ \A i \in 1 .. m : e2[i] = e[i]
    <3>1. Len(e2) = IF 1 <= m THEN m - 1 + 1 ELSE 0
      BY <2>3, <2>4, SubSeqProperties
    <3>2. e2 \in Seq(Printable) /\ \A i \in 1 .. m - 1 + 1 : e2[i] = e[1 + i - 1]
      BY <2>3, <2>4, SubSeqProperties
    <3> QED
      BY <3>1, <3>2
  <2>6. s.buf = r.buf
    BY <1>0, <1>6, <2>0
  <2>7. l + m = asked /\ m <= asked
    BY <1>0, <1>3, <2>1
  <2>8. \A i \in 1 .. m : s.buf[i] = e2[i]
    BY <1>1, <2>1, <2>5, <2>6
  <2> QED
    BY <1>1, <1>3, <2>5, <2>6, <2>7, <2>8
<1>7. CASE ch \notin Printable /\ ~(ch = "bs" /\ trans > 0)
  <2>1. m = trans /\ l = left
    BY <1>7 DEF Counted
  <2>2. e2 = e
    <3>1. ch = "bs" => e = << >>
      BY <1>1, <1>7
    <3> QED
      BY <1>2, <1>7, <3>1 DEF Edit
  <2> QED
    BY <1>0, <1>1, <1>3, <1>7, <2>1, <2>2
<1> QED
  BY <1>5, <1>6, <1>7

\* Steps that leave the reads alone.
LEMMA SameReads ==
    ASSUME Types, ReadersInv, LineInv, UNCHANGED reader,
           pc' = pc \/ (pc.at # "resume" /\ pc'.at # "resume"),
           \A t \in Ttys : /\ tty'[t].tty_procnr = tty[t].tty_procnr
                           /\ tty'[t].tty_left_cnt = tty[t].tty_left_cnt
                           /\ tty'[t].tty_trans_cnt = tty[t].tty_trans_cnt
    PROVE  ReadersInv' /\ LineInv'
<1>1. \A p \in Readers : TtyOf[p] \in Ttys
  BY TerminalAssumption
<1>2. ReadersInv'
  <2>1. \A t \in Ttys : tty'[t].tty_procnr \in Readers => TtyOf[tty'[t].tty_procnr] = t
    BY DEF ReadersInv
  <2>2. \A t \in Ttys : tty'[t].tty_left_cnt > 0 =>
          tty'[t].tty_procnr \in Readers /\ reader'[tty'[t].tty_procnr].suspended
    BY DEF ReadersInv
  <2>3. ASSUME NEW p \in Readers, reader'[p].suspended
        PROVE  /\ tty'[TtyOf[p]].tty_procnr \in Readers
               /\ tty'[TtyOf[p]].tty_procnr = p =>
                    /\ tty'[TtyOf[p]].tty_left_cnt + tty'[TtyOf[p]].tty_trans_cnt = reader'[p].asked
                    /\ tty'[TtyOf[p]].tty_left_cnt = 0 =>
                          reader'[p].asked = 0 \/ Ending(TtyOf[p])'
    <3>1. Ending(TtyOf[p]) => Ending(TtyOf[p])'
      BY DEF Ending
    <3> QED
      BY <1>1, <2>3, <3>1 DEF ReadersInv
  <2>4. pc'.at = "resume" => /\ tty'[pc'.tty].tty_procnr \in Readers
                             /\ reader'[tty'[pc'.tty].tty_procnr].suspended
    BY DEF ReadersInv, Types, TaskTypes, Pcs
  <2> QED
    BY <2>1, <2>2, <2>3, <2>4 DEF ReadersInv
<1>3. LineInv'
  <2> SUFFICES ASSUME NEW p \in Readers
               PROVE  /\ HoldsLine(reader'[p])
                      /\ ~reader'[p].suspended => reader'[p].cnt = Len(Edited(reader'[p].line))
                      /\ reader'[p].suspended /\ tty'[TtyOf[p]].tty_procnr = p =>
                            tty'[TtyOf[p]].tty_trans_cnt = Len(Edited(reader'[p].line))
    BY DEF LineInv
  <2> QED
    BY <1>1 DEF LineInv
<1> QED
  BY <1>2, <1>3

LEMMA InitReads == Init => ReadersInv /\ LineInv
<1> SUFFICES ASSUME Init PROVE ReadersInv /\ LineInv
  OBVIOUS
<1>1. \A t \in Ttys : tty[t].tty_procnr = NoReader /\ tty[t].tty_left_cnt = 0
  BY DEF Init
<1>2. \A p \in Readers : /\ ~reader[p].suspended /\ reader[p].asked = 0 /\ reader[p].cnt = 0
                         /\ reader[p].buf = << >> /\ reader[p].line = << >>
  BY DEF Init
<1>3. ReadersInv
  BY <1>1, <1>2, TerminalAssumption DEF ReadersInv, Init
<1>4. << >> \in Seq(Printable) /\ Len(<< >>) = 0
  OBVIOUS
<1>5. LineInv
  <2> SUFFICES ASSUME NEW p \in Readers
               PROVE  HoldsLine(reader[p]) /\ reader[p].cnt = Len(Edited(reader[p].line))
    BY <1>2 DEF LineInv
  <2>1. Edited(reader[p].line) = << >>
    BY <1>2, EditedEmpty
  <2> QED
    BY <1>2, <1>4, <2>1 DEF HoldsLine
<1> QED
  BY <1>3, <1>5

\* The TTY task takes a key for the process that reads.
LEMMA TakeReads ==
    ASSUME Types, ReadersInv, LineInv, NEW t \in Ttys, tty[t].key_buf # << >>, TakeKey(t),
           pc = [at |-> "dev_write", tty |-> t]
    PROVE  /\ ReadersInv' /\ LineInv' /\ pc' \in Pcs /\ pc'.tty = t
           /\ pc'.at \in {"dev_write", "resume"}
           /\ tty' \in [Ttys -> TtyRecord] /\ reader' \in [Readers -> ReaderRecord]
           /\ \A u \in Ttys \ {t} : tty'[u] = tty[u]
           /\ tty'[t].key_buf = Tail(tty[t].key_buf)
<1>0. tty[t].tty_left_cnt \in Nat
  BY DEF Types, TaskTypes, TtyRecord
<1>1. CASE tty[t].tty_left_cnt = 0
  BY <1>1, TakeKeyIdle, SameReads DEF Types, TaskTypes, Pcs
<1>2. CASE tty[t].tty_left_cnt > 0
  <2>1. PICK p \in Readers : p = tty[t].tty_procnr /\ reader[p].suspended /\ TtyOf[p] = t
    BY <1>2 DEF ReadersInv
  <2>2. PICK left \in Nat \ {0}, trans \in Nat : left = tty[t].tty_left_cnt /\ trans = tty[t].tty_trans_cnt
    BY <1>2 DEF Types, TaskTypes, TtyRecord
  <2>3. PICK ch \in Syms : ch = Head(tty[t].key_buf)
    BY HeadTail DEF Types, TaskTypes, TtyRecord
  <2>40. PICK l \in Nat, m \in Nat, ends \in BOOLEAN : TakesFor(t, p, ch, l, m, ends)
    <3>1. p \in Readers /\ p = tty[t].tty_procnr /\ ch = Head(tty[t].key_buf)
      BY <2>1, <2>3
    <3> QED
      BY <1>2, <3>1, TakeKeyRead
  <2>4. /\ l \in Nat /\ m \in Nat /\ ends \in BOOLEAN
        /\ Counted(tty[t].tty_left_cnt, tty[t].tty_trans_cnt, ch, l, m)
        /\ ends <=> ch = "nl" \/ l = 0
        /\ tty' \in [Ttys -> TtyRecord]
        /\ \A u \in Ttys \ {t} : tty'[u] = tty[u]
        /\ tty'[t].key_buf = Tail(tty[t].key_buf)
        /\ tty'[t].tty_procnr = p
        /\ tty'[t].tty_left_cnt = l
        /\ tty'[t].tty_trans_cnt = m
        /\ reader' \in [Readers -> ReaderRecord]
        /\ \A u \in Readers \ {p} : reader'[u] = reader[u]
        /\ GivenTo(reader[p], reader'[p], tty[t].tty_trans_cnt, ch)
        /\ reader'[p].suspended = reader[p].suspended
        /\ pc' = IF ends THEN [at |-> "resume", tty |-> t] ELSE [at |-> "dev_write", tty |-> t]
    BY <2>40 DEF TakesFor
  <2>5. HoldsLine(reader'[p]) /\ m = Len(Edited(reader'[p].line)) /\ l + m = reader'[p].asked
    <3>1. PICK r \in ReaderRecord, s \in ReaderRecord : r = reader[p] /\ s = reader'[p]
      BY <2>1, <2>4 DEF Types, TaskTypes
    <3>2. HoldsLine(r) /\ trans = Len(Edited(r.line)) /\ SumIs(left, trans, r.asked)
      BY <2>1, <2>2, <3>1 DEF LineInv, ReadersInv, SumIs
    <3>3. Counted(left, trans, ch, l, m) /\ GivenTo(r, s, trans, ch)
      BY <2>2, <2>4, <3>1
    <3>4. HoldsLine(s) /\ m = Len(Edited(s.line)) /\ SumIs(l, m, s.asked)
      <4>1. /\ r \in ReaderRecord /\ s \in ReaderRecord /\ ch \in Syms
            /\ left \in Nat \ {0} /\ trans \in Nat /\ l \in Nat /\ m \in Nat
        BY <2>2, <2>3, <2>4, <3>1
      <4> QED
        BY <3>2, <3>3, <4>1, GivenLine, Zenon
    <3> QED
      BY <3>1, <3>4 DEF SumIs
  <2>6. ReadersInv'
    <3>1. \A u \in Ttys : tty'[u].tty_procnr = tty[u].tty_procnr
      BY <2>1, <2>4
    <3>2. \A u \in Ttys : tty'[u].tty_procnr \in Readers => TtyOf[tty'[u].tty_procnr] = u
      BY <3>1 DEF ReadersInv
    <3>3. ASSUME NEW u \in Ttys, tty'[u].tty_left_cnt > 0
          PROVE  tty'[u].tty_procnr \in Readers /\ reader'[tty'[u].tty_procnr].suspended
      <4>1. CASE u = t
        BY <2>1, <2>4, <4>1
      <4>2. CASE u # t
        <5>1. /\ tty[u].tty_procnr \in Readers /\ reader[tty[u].tty_procnr].suspended
              /\ TtyOf[tty[u].tty_procnr] = u
          BY <2>4, <3>3, <4>2 DEF ReadersInv
        <5>2. tty[u].tty_procnr # p
          BY <2>1, <4>2, <5>1
        <5> QED
          BY <2>4, <3>1, <5>1, <5>2
      <4> QED
        BY <4>1, <4>2
    <3>4. ASSUME NEW q \in Readers, reader'[q].suspended
          PROVE  /\ tty'[TtyOf[q]].tty_procnr \in Readers
                 /\ tty'[TtyOf[q]].tty_procnr = q =>
                      /\ tty'[TtyOf[q]].tty_left_cnt + tty'[TtyOf[q]].tty_trans_cnt = reader'[q].asked
                      /\ tty'[TtyOf[q]].tty_left_cnt = 0 =>
                            reader'[q].asked = 0 \/ Ending(TtyOf[q])'
      <4>1. CASE q = p
        <5>1. l = 0 => Ending(t)'
          BY <2>4 DEF Ending
        <5>2. tty'[t].tty_procnr = p /\ tty'[t].tty_left_cnt = l /\ tty'[t].tty_trans_cnt = m
          BY <2>4
        <5> QED
          BY <2>1, <2>5, <4>1, <5>1, <5>2
      <4>2. CASE q # p
        <5>1. TtyOf[q] \in Ttys
          BY TerminalAssumption
        <5>2. reader'[q] = reader[q]
          BY <2>4, <4>2
        <5>3. CASE TtyOf[q] = t
          BY <2>4, <4>2, <5>3
        <5>4. CASE TtyOf[q] # t
          <6>1. tty'[TtyOf[q]] = tty[TtyOf[q]]
            BY <2>4, <5>1, <5>4
          <6>2. ~Ending(TtyOf[q])
            BY DEF Ending
          <6> QED
            BY <3>4, <5>2, <6>1, <6>2 DEF ReadersInv
        <5> QED
          BY <5>3, <5>4
      <4> QED
        BY <4>1, <4>2
    <3>5. pc'.at = "resume" => /\ tty'[pc'.tty].tty_procnr \in Readers
                               /\ reader'[tty'[pc'.tty].tty_procnr].suspended
      BY <2>1, <2>4
    <3> QED
      BY <3>2, <3>3, <3>4, <3>5 DEF ReadersInv
  <2>7. LineInv'
    <3> SUFFICES ASSUME NEW q \in Readers
                 PROVE  /\ HoldsLine(reader'[q])
                        /\ ~reader'[q].suspended => reader'[q].cnt = Len(Edited(reader'[q].line))
                        /\ reader'[q].suspended /\ tty'[TtyOf[q]].tty_procnr = q =>
                              tty'[TtyOf[q]].tty_trans_cnt = Len(Edited(reader'[q].line))
      BY DEF LineInv
    <3>1. CASE q = p
      BY <2>1, <2>4, <2>5, <3>1
    <3>2. CASE q # p
      <4>1. reader'[q] = reader[q] /\ TtyOf[q] \in Ttys
        BY <2>4, <3>2, TerminalAssumption
      <4>2. tty'[TtyOf[q]].tty_procnr = q => tty'[TtyOf[q]] = tty[TtyOf[q]]
        BY <2>4, <3>2, <4>1
      <4> QED
        BY <4>1, <4>2 DEF LineInv
    <3> QED
      BY <3>1, <3>2
  <2> QED
    BY <2>4, <2>6, <2>7 DEF Pcs
<1> QED
  BY <1>0, <1>1, <1>2

\* The process is resumed, with as many bytes as were copied.
LEMMA ResumeReads ==
    ASSUME Types, ReadersInv, LineInv, Resume
    PROVE  /\ ReadersInv' /\ LineInv'
           /\ tty' \in [Ttys -> TtyRecord] /\ reader' \in [Readers -> ReaderRecord]
           /\ \A u \in Ttys : tty'[u].key_buf = tty[u].key_buf
<1>1. PICK t \in Ttys : t = pc.tty /\ tty[t] \in TtyRecord
  BY DEF Types, TaskTypes, Pcs
<1>2. PICK p \in Readers : p = tty[t].tty_procnr /\ reader[p].suspended /\ TtyOf[p] = t
  BY <1>1 DEF Resume, ReadersInv
<1>3. PICK m \in Nat : m = tty[t].tty_trans_cnt /\ m = Len(Edited(reader[p].line))
  BY <1>1, <1>2 DEF LineInv, TtyRecord
<1>4. PICK e : e = [tty[t] EXCEPT !.tty_left_cnt = 0] /\ tty' = [tty EXCEPT ![t] = e]
  BY <1>1 DEF Resume, Types, TaskTypes
<1>5. /\ e \in TtyRecord /\ e.key_buf = tty[t].key_buf /\ e.tty_procnr = p
      /\ e.tty_left_cnt = 0 /\ e.tty_trans_cnt = m
  BY <1>1, <1>2, <1>3, <1>4, LeftOf
<1>6. PICK r \in ReaderRecord : r = reader[p]
  BY DEF Types, TaskTypes
<1>7. PICK s : s = [r EXCEPT !.suspended = FALSE, !.cnt = m] /\ reader' = [reader EXCEPT ![p] = s]
  BY <1>1, <1>2, <1>3, <1>6 DEF Resume, Types, TaskTypes
<1>8. /\ s \in ReaderRecord /\ ~s.suspended /\ s.cnt = m /\ s.asked = r.asked
      /\ s.buf = r.buf /\ s.line = r.line
  BY <1>6, <1>7 DEF ReaderRecord
<1>9. /\ tty' \in [Ttys -> TtyRecord] /\ reader' \in [Readers -> ReaderRecord]
      /\ tty'[t] = e /\ \A u \in Ttys \ {t} : tty'[u] = tty[u]
      /\ reader'[p] = s /\ \A q \in Readers \ {p} : reader'[q] = reader[q]
  BY <1>4, <1>5, <1>7, <1>8 DEF Types, TaskTypes
<1>10. \A u \in Ttys : /\ tty'[u].key_buf = tty[u].key_buf
                       /\ tty'[u].tty_procnr = tty[u].tty_procnr
                       /\ tty'[u].tty_trans_cnt = tty[u].tty_trans_cnt
  BY <1>2, <1>3, <1>5, <1>9
<1>11. pc.at = "resume" /\ pc'.at # "resume"
  BY DEF Resume, Types, TaskTypes, Pcs
<1>12. ReadersInv'
  <2>1. \A u \in Ttys : tty'[u].tty_procnr \in Readers => TtyOf[tty'[u].tty_procnr] = u
    BY <1>10 DEF ReadersInv
  <2>2. ASSUME NEW u \in Ttys, tty'[u].tty_left_cnt > 0
        PROVE  tty'[u].tty_procnr \in Readers /\ reader'[tty'[u].tty_procnr].suspended
    <3>1. u # t
      BY <1>5, <1>9, <2>2
    <3>2. /\ tty[u].tty_procnr \in Readers /\ reader[tty[u].tty_procnr].suspended
          /\ TtyOf[tty[u].tty_procnr] = u
      BY <1>9, <2>2, <3>1 DEF ReadersInv
    <3> QED
      BY <1>2, <1>9, <1>10, <3>1, <3>2
  <2>3. ASSUME NEW q \in Readers, reader'[q].suspended
        PROVE  /\ tty'[TtyOf[q]].tty_procnr \in Readers
               /\ tty'[TtyOf[q]].tty_procnr = q =>
                    /\ tty'[TtyOf[q]].tty_left_cnt + tty'[TtyOf[q]].tty_trans_cnt = reader'[q].asked
                    /\ tty'[TtyOf[q]].tty_left_cnt = 0 =>
                          reader'[q].asked = 0 \/ Ending(TtyOf[q])'
    <3>1. q # p /\ reader'[q] = reader[q] /\ TtyOf[q] \in Ttys
      BY <1>8, <1>9, <2>3, TerminalAssumption
    <3>2. CASE TtyOf[q] = t
      BY <1>2, <1>5, <1>9, <3>1, <3>2
    <3>3. CASE TtyOf[q] # t
      <4>1. tty'[TtyOf[q]] = tty[TtyOf[q]]
        BY <1>9, <3>1, <3>3
      <4>2. ~Ending(TtyOf[q])
        BY <1>1, <3>3 DEF Ending
      <4> QED
        BY <2>3, <3>1, <4>1, <4>2 DEF ReadersInv
    <3> QED
      BY <3>2, <3>3
  <2> QED
    BY <1>11, <2>1, <2>2, <2>3 DEF ReadersInv
<1>13. LineInv'
  <2> SUFFICES ASSUME NEW q \in Readers
               PROVE  /\ HoldsLine(reader'[q])
                      /\ ~reader'[q].suspended => reader'[q].cnt = Len(Edited(reader'[q].line))
                      /\ reader'[q].suspended /\ tty'[TtyOf[q]].tty_procnr = q =>
                            tty'[TtyOf[q]].tty_trans_cnt = Len(Edited(reader'[q].line))
    BY DEF LineInv
  <2>1. CASE q = p
    <3>1. HoldsLine(r)
      BY <1>6 DEF LineInv
    <3>2. HoldsLine(s)
      BY <1>8, <3>1 DEF HoldsLine
    <3> QED
      BY <1>3, <1>6, <1>8, <1>9, <2>1, <3>2
  <2>2. CASE q # p
    <3>1. reader'[q] = reader[q] /\ TtyOf[q] \in Ttys
      BY <1>9, <2>2, TerminalAssumption
    <3> QED
      BY <1>10, <3>1 DEF LineInv
  <2> QED
    BY <2>1, <2>2
<1> QED
  BY <1>9, <1>10, <1>12, <1>13

\* A process asks for a line.
LEMMA DoReadReads ==
    ASSUME Types, ReadersInv, LineInv, NEW p \in Readers, NEW n \in Counts, tty_do_read(p, n)
    PROVE  /\ ReadersInv' /\ LineInv'
           /\ tty' \in [Ttys -> TtyRecord] /\ reader' \in [Readers -> ReaderRecord]
           /\ \A u \in Ttys : tty'[u].key_buf = tty[u].key_buf
<1>1. PICK t \in Ttys : t = TtyOf[p] /\ n \in Nat
  BY TerminalAssumption
<1>2. PICK d \in TtyRecord : /\ d = [tty[t] EXCEPT !.tty_procnr = p, !.tty_left_cnt = n, !.tty_trans_cnt = 0]
                            /\ d.key_buf = tty[t].key_buf /\ d.tty_procnr = p
                            /\ d.tty_left_cnt = n /\ d.tty_trans_cnt = 0
  <2>1. PICK d : d = [tty[t] EXCEPT !.tty_procnr = p, !.tty_left_cnt = n, !.tty_trans_cnt = 0]
    OBVIOUS
  <2>2. tty[t] \in TtyRecord
    BY DEF Types, TaskTypes
  <2>3. /\ d \in TtyRecord
        /\ d.key_buf = tty[t].key_buf /\ d.tty_procnr = p
        /\ d.tty_left_cnt = n /\ d.tty_trans_cnt = 0
    BY <1>1, <2>1, <2>2 DEF TtyRecord
  <2> QED
    BY <2>1, <2>3
<1>3. tty' = [tty EXCEPT ![t] = d]
  BY <1>1, <1>2 DEF tty_do_read, Types, TaskTypes
<1>4. PICK b \in Seq(Syms) : b = [i \in 1 .. n |-> nul] /\ Len(b) = n
  <2>1. nul \in Syms
    BY SymsFacts
  <2>2. [i \in 1 .. n |-> nul] \in Seq(Syms) /\ Len([i \in 1 .. n |-> nul]) = n
    BY <1>1, <2>1
  <2> QED
    BY <2>2
<1>5. PICK r \in ReaderRecord : /\ r = [suspended |-> TRUE, asked |-> n, cnt |-> 0, buf |-> b, line |-> << >>]
                               /\ r.suspended = TRUE /\ r.asked = n /\ r.line = << >> /\ r.buf = b
  <2>0. << >> \in Seq(Syms)
    OBVIOUS
  <2>1. PICK e \in Seq(Syms) : e = << >>
    BY <2>0, Zenon
  <2>2. PICK r : r = [suspended |-> TRUE, asked |-> n, cnt |-> 0, buf |-> b, line |-> e]
    OBVIOUS
  <2>3. /\ r \in ReaderRecord
        /\ r.suspended = TRUE /\ r.asked = n /\ r.line = e /\ r.buf = b
    <3>1. n \in Nat /\ b \in Seq(Syms) /\ e \in Seq(Syms)
      BY <1>1, <1>4, <2>1
    <3> QED
      BY <2>2, <3>1 DEF ReaderRecord
  <2> QED
    BY <2>1, <2>2, <2>3
<1>6. reader' = [reader EXCEPT ![p] = r]
  BY <1>4, <1>5 DEF tty_do_read
<1>7. /\ tty' \in [Ttys -> TtyRecord] /\ reader' \in [Readers -> ReaderRecord]
      /\ \A u \in Ttys \ {t} : tty'[u] = tty[u]
      /\ \A u \in Readers \ {p} : reader'[u] = reader[u]
      /\ tty'[t].key_buf = tty[t].key_buf /\ tty'[t].tty_procnr = p
      /\ tty'[t].tty_left_cnt = n /\ tty'[t].tty_trans_cnt = 0
      /\ reader'[p].suspended = TRUE /\ reader'[p].asked = n /\ reader'[p].line = << >>
      /\ reader'[p].buf = b
  <2>1. tty'[t] = d /\ reader'[p] = r
    BY <1>3, <1>6 DEF Types, TaskTypes
  <2>2. /\ tty' \in [Ttys -> TtyRecord] /\ reader' \in [Readers -> ReaderRecord]
        /\ \A u \in Ttys \ {t} : tty'[u] = tty[u]
        /\ \A u \in Readers \ {p} : reader'[u] = reader[u]
    BY <1>2, <1>3, <1>5, <1>6 DEF Types, TaskTypes
  <2> QED
    BY <1>2, <1>5, <2>1, <2>2
<1>8. ReadersInv'
  <2>1. \A u \in Ttys : tty'[u].tty_procnr \in Readers => TtyOf[tty'[u].tty_procnr] = u
    BY <1>1, <1>7 DEF ReadersInv
  <2>2. ASSUME NEW u \in Ttys, tty'[u].tty_left_cnt > 0
        PROVE  tty'[u].tty_procnr \in Readers /\ reader'[tty'[u].tty_procnr].suspended
    <3>1. CASE u = t
      BY <1>7, <3>1
    <3>2. CASE u # t
      <4>1. /\ tty[u].tty_procnr \in Readers /\ reader[tty[u].tty_procnr].suspended
            /\ TtyOf[tty[u].tty_procnr] = u
        BY <1>7, <2>2, <3>2 DEF ReadersInv
      <4> QED
        BY <1>1, <1>7, <3>2, <4>1
    <3> QED
      BY <3>1, <3>2
  <2>3. ASSUME NEW q \in Readers, reader'[q].suspended
        PROVE  /\ tty'[TtyOf[q]].tty_procnr \in Readers
               /\ tty'[TtyOf[q]].tty_procnr = q =>
                    /\ tty'[TtyOf[q]].tty_left_cnt + tty'[TtyOf[q]].tty_trans_cnt = reader'[q].asked
                    /\ tty'[TtyOf[q]].tty_left_cnt = 0 =>
                          reader'[q].asked = 0 \/ Ending(TtyOf[q])'
    <3>1. CASE q = p
      BY <1>1, <1>7, <3>1
    <3>2. CASE q # p
      <4>1. reader'[q] = reader[q] /\ TtyOf[q] \in Ttys
        BY <1>7, <3>2, TerminalAssumption
      <4>2. CASE TtyOf[q] = t
        BY <1>7, <3>2, <4>2
      <4>3. CASE TtyOf[q] # t
        <5>1. ~Ending(TtyOf[q])
          BY DEF tty_do_read, Received, Ending
        <5> QED
          BY <1>7, <2>3, <4>1, <4>3, <5>1 DEF ReadersInv
      <4> QED
        BY <4>2, <4>3
    <3> QED
      BY <3>1, <3>2
  <2>4. pc'.at # "resume"
    BY DEF tty_do_read, Received, ScanFrom
  <2> QED
    BY <2>1, <2>2, <2>3, <2>4 DEF ReadersInv
<1>9. LineInv'
  <2> SUFFICES ASSUME NEW q \in Readers
               PROVE  /\ HoldsLine(reader'[q])
                      /\ ~reader'[q].suspended => reader'[q].cnt = Len(Edited(reader'[q].line))
                      /\ reader'[q].suspended /\ tty'[TtyOf[q]].tty_procnr = q =>
                            tty'[TtyOf[q]].tty_trans_cnt = Len(Edited(reader'[q].line))
    BY DEF LineInv
  <2>1. CASE q = p
    <3>0. << >> \in Seq(Printable) /\ Len(<< >>) = 0
      OBVIOUS
    <3>1. PICK e \in Seq(Printable) : e = << >> /\ Len(e) = 0
      BY <3>0, Zenon
    <3>2. Edited(reader'[p].line) = e
      BY <1>7, <3>1, EditedEmpty
    <3>3. HoldsLine(reader'[p])
      <4>1. /\ e \in Seq(Printable) /\ Len(reader'[p].buf) = reader'[p].asked
            /\ Len(e) <= reader'[p].asked /\ 1 .. Len(e) = {}
        BY <1>1, <1>4, <1>7, <3>1
      <4> QED
        BY <3>2, <4>1 DEF HoldsLine
    <3> QED
      BY <1>1, <1>7, <2>1, <3>1, <3>2, <3>3
  <2>2. CASE q # p
    <3>1. reader'[q] = reader[q] /\ TtyOf[q] \in Ttys
      BY <1>7, <2>2, TerminalAssumption
    <3>2. tty'[TtyOf[q]].tty_procnr = q => tty'[TtyOf[q]] = tty[TtyOf[q]]
      BY <1>7, <2>2, <3>1
    <3> QED
      BY <3>1, <3>2 DEF LineInv
  <2> QED
    BY <2>1, <2>2
<1> QED
  BY <1>7, <1>8, <1>9

-----------------------------------------------------------------------------
(* Types, readers and lines, at every step *)

\* The inductive invariant for readers and lines.
ReadInv == Types /\ ReadersInv /\ LineInv

\* The TTY task goes to another terminal.
LEMMA TypesScan ==
    ASSUME Types, NEW t, ScanFrom(t, current_console)
    PROVE  /\ pc' \in Pcs /\ pc'.at # "resume"
           /\ skipping' \in BOOLEAN
BY TtysFacts DEF ScanFrom, Types, TaskTypes, Pcs

LEMMA TypesOfTask ==
    ASSUME Types, tty' \in [Ttys -> TtyRecord], reader' \in [Readers -> ReaderRecord],
           \A u \in Ttys : Len(tty'[u].key_buf) <= TTY_QUEUE_SIZE,
           pc' \in Pcs,
           skipping' \in BOOLEAN, meant' \in Seq(Syms),
           UNCHANGED <<wire, text, cell, p_head, p_tail, count, kb_state, code, dropped,
                       current_console>>
    PROVE  Types'
BY DEF Types, DriverTypes, TaskTypes

LEMMA SameTtys ==
    ASSUME ReadInv, Types', UNCHANGED <<tty, reader>>,
           pc' = pc \/ (pc.at # "resume" /\ pc'.at # "resume")
    PROVE  ReadInv'
BY SameReads DEF ReadInv

\* keyboard_read changes the queues of keys at most.
LEMMA ReadSameReads ==
    ASSUME Types, keyboard_read
    PROVE  /\ UNCHANGED reader
           /\ pc.at # "resume" /\ pc'.at # "resume" /\ pc'.tty = pc.tty
           /\ \A t \in Ttys : /\ tty'[t].tty_procnr = tty[t].tty_procnr
                              /\ tty'[t].tty_left_cnt = tty[t].tty_left_cnt
                              /\ tty'[t].tty_trans_cnt = tty[t].tty_trans_cnt
<1>1. \/ UNCHANGED tty
      \/ \E t \in Ttys : \E q : tty' = [tty EXCEPT ![t].key_buf = q]
  <2>1. pc.tty \in Ttys
    BY DEF Types, TaskTypes, Pcs
  <2>2. ASSUME NEW key, tty_process_key(pc.tty, key)
        PROVE  \/ UNCHANGED tty \/ \E t \in Ttys : \E q : tty' = [tty EXCEPT ![t].key_buf = q]
    BY <2>1, <2>2 DEF tty_process_key, tty_key_enqueue
  <2>3. ASSUME NEW g, ProcessCode(pc.tty, g)
        PROVE  \/ UNCHANGED tty \/ \E key : tty_process_key(pc.tty, key)
    BY <2>3, Zenon DEF ProcessCode
  <2>4. UNCHANGED tty \/ \E g : ProcessCode(pc.tty, g)
    BY Zenon DEF keyboard_read
  <2> QED
    BY <2>2, <2>3, <2>4
<1>2. UNCHANGED reader
  BY DEF keyboard_read
<1>3. ASSUME NEW t \in Ttys, NEW q, tty' = [tty EXCEPT ![t].key_buf = q], NEW u \in Ttys
      PROVE  /\ tty'[u].tty_procnr = tty[u].tty_procnr
             /\ tty'[u].tty_left_cnt = tty[u].tty_left_cnt
             /\ tty'[u].tty_trans_cnt = tty[u].tty_trans_cnt
  BY <1>3 DEF Types, TaskTypes, TtyRecord
<1>4. pc.at # "resume" /\ pc'.at # "resume" /\ pc'.tty = pc.tty
  <2>1. pc \in Pcs /\ pc.at = "keyboard_read"
    BY DEF keyboard_read, Types, TaskTypes
  <2>2. ASSUME NEW g, ProcessCode(pc.tty, g)
        PROVE  pc' = pc \/ pc' = [pc EXCEPT !.at = "set_leds"]
    BY <2>2, Zenon DEF ProcessCode
  <2>3. pc' = pc \/ \E g : ProcessCode(pc.tty, g)
    BY Zenon DEF keyboard_read
  <2>4. pc' = pc \/ pc' = [pc EXCEPT !.at = "set_leds"]
    BY <2>2, <2>3
  <2> QED
    BY <2>1, <2>4 DEF Pcs
<1> QED
  BY <1>1, <1>2, <1>3, <1>4

\* set_leds loses bytes of the keyboard at most.
LEMMA LedsStep ==
    ASSUME Types, set_leds
    PROVE  /\ Types' /\ UNCHANGED <<tty, reader>>
           /\ pc.at # "resume" /\ pc'.at \notin {"resume", "receive"} /\ pc'.tty = pc.tty
<1>0. << >> \in Seq(Syms)
  OBVIOUS
<1>1. UNCHANGED <<text, held, cell, p_head, p_tail, count, kb_state, code, skipping,
                  key_pressed, current_console, tty, reader>>
  BY DEF set_leds
<1>2. pc' \in Pcs /\ pc.at # "resume" /\ pc'.at \notin {"resume", "receive"} /\ pc'.tty = pc.tty
  <2>1. pc \in Pcs /\ pc.at = "set_leds" /\ (pc' = pc \/ pc' = [pc EXCEPT !.at = "keyboard_read"])
    BY DEF set_leds, Types, TaskTypes
  <2> QED
    BY <2>1 DEF Pcs
<1>3. wire' \in Seq(Bytes) /\ meant' \in Seq(Syms) /\ dropped' \in BOOLEAN
  <2>1. CASE wire # << >> /\ wire' = Tail(wire) /\ Drop(TRUE)
    BY <1>0, <2>1, HeadTail DEF Drop, Types, DriverTypes
  <2>2. CASE UNCHANGED <<wire, meant, dropped>>
    BY <2>2 DEF Types, DriverTypes
  <2> QED
    BY <2>1, <2>2 DEF set_leds
<1>4. DriverTypes'
  BY <1>1, <1>3 DEF Types, DriverTypes
<1>5. TaskTypes'
  BY <1>1, <1>2 DEF Types, TaskTypes
<1> QED
  BY <1>1, <1>2, <1>4, <1>5 DEF Types

\* Every step keeps it.
LEMMA NextReadInv == ReadInv /\ [Next]_vars => ReadInv'
<1> SUFFICES ASSUME ReadInv, [Next]_vars PROVE ReadInv'
  OBVIOUS
<1>0. /\ Types /\ ReadersInv /\ LineInv
      /\ tty \in [Ttys -> TtyRecord] /\ reader \in [Readers -> ReaderRecord]
      /\ \A u \in Ttys : Len(tty[u].key_buf) <= TTY_QUEUE_SIZE
      /\ pc \in Pcs
      /\ meant \in Seq(Syms) /\ skipping \in BOOLEAN
  BY DEF ReadInv, Types, TaskTypes, DriverTypes
<1>1. CASE Type /\ UNCHANGED <<pc, current_console, tty, reader>>
  BY <1>0, <1>1, TypesType, SameTtys
<1>2. CASE keyboard_handler /\ UNCHANGED <<pc, current_console, tty, reader>>
  BY <1>0, <1>2, TypesHandler, SameTtys
<1>3. CASE keyboard_read
  BY <1>0, <1>3, TypesRead, ReadSameReads, SameReads DEF ReadInv
<1>4. CASE KeyboardEmpty
  <2>1. pc' \in Pcs
    BY <1>0, <1>4 DEF KeyboardEmpty, Pcs
  <2>2. UNCHANGED <<keyboardVars, current_console, tty, reader>>
    BY <1>4 DEF KeyboardEmpty
  <2>3. Types'
    BY <1>0, <2>1, <2>2, TypesOfTask DEF keyboardVars, driverVars
  <2>4. pc.at # "resume" /\ pc'.at # "resume"
    BY <1>0, <1>4 DEF KeyboardEmpty, Pcs
  <2> QED
    BY <2>2, <2>3, <2>4, SameTtys
<1>5. CASE tty_dev_write
  <2>1. CASE tty[pc.tty].key_buf # << >>
    <3>1. PICK t \in Ttys : t = pc.tty /\ pc = [at |-> "dev_write", tty |-> t]
      BY <1>0, <1>5 DEF tty_dev_write, Pcs
    <3>2. tty[t].key_buf # << >> /\ TakeKey(t) /\ UNCHANGED skipping
      BY <1>5, <2>1, <3>1 DEF tty_dev_write
    <3>3. /\ ReadersInv' /\ LineInv' /\ pc' \in Pcs
          /\ tty' \in [Ttys -> TtyRecord] /\ reader' \in [Readers -> ReaderRecord]
          /\ \A u \in Ttys \ {t} : tty'[u] = tty[u]
          /\ tty'[t].key_buf = Tail(tty[t].key_buf)
      BY <1>0, <3>1, <3>2, TakeReads
    <3>4. \A u \in Ttys : Len(tty'[u].key_buf) <= TTY_QUEUE_SIZE
      <4>1. PICK q \in Seq(Syms) : q = tty[t].key_buf
        BY <1>0, <3>1 DEF TtyRecord
      <4>2. Len(Tail(q)) = Len(q) - 1 /\ Len(q) \in Nat
        BY <3>2, <4>1, HeadTail
      <4>3. PICK a, b : a = Len(Tail(q)) /\ b = Len(q)
        OBVIOUS
      <4>4. a <= TTY_QUEUE_SIZE
        BY <1>0, <3>1, <4>1, <4>2, <4>3, TtysFacts
      <4> QED
        BY <1>0, <3>3, <4>1, <4>3, <4>4
    <3>5. meant' \in Seq(Syms)
      <4>1. meant' = IF meant = << >> THEN meant ELSE Tail(meant)
        BY <3>2 DEF TakeKey
      <4> QED
        BY <1>0, <4>1, HeadTail
    <3>6. Types'
      <4>1. UNCHANGED <<wire, text, cell, p_head, p_tail, count, kb_state, code, dropped,
                       current_console>>
        BY <1>5 DEF tty_dev_write
      <4> QED
        BY <1>0, <3>2, <3>3, <3>4, <3>5, <4>1, TypesOfTask
    <3> QED
      BY <3>3, <3>6 DEF ReadInv
  <2>2. CASE tty[pc.tty].key_buf = << >>
    <3>1. ScanFrom(pc.tty + 1, current_console) /\ UNCHANGED <<meant, tty, reader>>
      BY <1>5, <2>2 DEF tty_dev_write
    <3>2. UNCHANGED <<wire, text, cell, p_head, p_tail, count, kb_state, code, dropped,
                       current_console>>
      BY <1>5 DEF tty_dev_write
    <3>3. /\ pc' \in Pcs /\ pc.at # "resume" /\ pc'.at # "resume"
          /\ skipping' \in BOOLEAN
      BY <1>0, <1>5, <3>1, TypesScan DEF tty_dev_write
    <3>4. Types'
      BY <1>0, <3>1, <3>2, <3>3, TypesOfTask
    <3> QED
      BY <3>1, <3>3, <3>4, SameTtys
  <2> QED
    BY <2>1, <2>2
<1>6. ASSUME Received
      PROVE  /\ pc' \in Pcs /\ pc.at # "resume" /\ pc'.at # "resume"
             /\ skipping' \in BOOLEAN
  BY <1>0, <1>6, TypesScan DEF Received
<1>7. CASE ReceiveHwInt \/ ReceiveOther
  <2>1. Received /\ UNCHANGED <<driverVars, current_console, tty, reader>>
    BY <1>7 DEF ReceiveHwInt, ReceiveOther
  <2>2. Types'
    BY <1>0, <1>6, <2>1, TypesOfTask DEF driverVars
  <2> QED
    BY <1>6, <2>1, <2>2, SameTtys
<1>8. ASSUME NEW p \in Readers, NEW n \in Counts, tty_do_read(p, n)
      PROVE  ReadInv'
  <2>1. Received /\ UNCHANGED <<driverVars, current_console>>
    BY <1>8 DEF tty_do_read
  <2>2. /\ ReadersInv' /\ LineInv'
        /\ tty' \in [Ttys -> TtyRecord] /\ reader' \in [Readers -> ReaderRecord]
        /\ \A u \in Ttys : tty'[u].key_buf = tty[u].key_buf
    BY <1>0, <1>8, DoReadReads
  <2>3. Types'
    BY <1>0, <1>6, <2>1, <2>2, TypesOfTask DEF driverVars
  <2> QED
    BY <2>2, <2>3 DEF ReadInv
<1>9. CASE UNCHANGED vars
  <2>1. Types'
    BY <1>0, <1>9, TypesOfTask DEF vars, keyboardVars, driverVars
  <2> QED
    BY <1>9, <2>1, SameTtys DEF vars
<1>10. CASE set_leds
  BY <1>0, <1>10, LedsStep, SameTtys
<1>11. CASE Resume
  <2>1. /\ ReadersInv' /\ LineInv'
        /\ tty' \in [Ttys -> TtyRecord] /\ reader' \in [Readers -> ReaderRecord]
        /\ \A u \in Ttys : tty'[u].key_buf = tty[u].key_buf
    BY <1>0, <1>11, ResumeReads
  <2>2. pc' \in Pcs /\ UNCHANGED <<keyboardVars, current_console>>
    BY <1>0, <1>11 DEF Resume, Pcs
  <2>3. Types'
    BY <1>0, <2>1, <2>2, TypesOfTask DEF keyboardVars, driverVars
  <2> QED
    BY <2>1, <2>3 DEF ReadInv
<1> QED
  BY <1>1, <1>2, <1>3, <1>4, <1>5, <1>7, <1>8, <1>9, <1>10, <1>11 DEF Next, TtyTask

LEMMA ReadInvAlways == Spec => []ReadInv
<1>1. Init => ReadInv
  BY TypesInit, InitReads DEF ReadInv
<1> QED
  BY <1>1, NextReadInv, PTL DEF Spec

LEMMA TypesTypeOK == Types => TypeOK
BY DEF Types, DriverTypes, TaskTypes, TtyRecord, TypeOK, Pcs

\* It has the three properties.
LEMMA KnownReaders == Types /\ ReadersInv => ReadersKnown
<1> SUFFICES ASSUME Types, ReadersInv, NEW p \in Readers, reader[p].suspended
             PROVE  LET d == tty[TtyOf[p]]
                    IN  \/ d.tty_procnr = p
                           /\ d.tty_left_cnt + d.tty_trans_cnt = reader[p].asked
                           /\ (d.tty_left_cnt = 0 =>
                                 reader[p].asked = 0 \/ pc = [at |-> "resume", tty |-> TtyOf[p]])
                        \/ d.tty_procnr # p /\ TtyOf[d.tty_procnr] = TtyOf[p]
  BY DEF ReadersKnown
<1>1. TtyOf[p] \in Ttys
  BY TerminalAssumption
<1> QED
  BY <1>1 DEF ReadersInv, Ending

LEMMA LinesHeld == Types /\ LineInv => LineDelivered
<1> SUFFICES ASSUME Types, LineInv, NEW p \in Readers
             PROVE  LET r == reader[p]
                        n == IF r.suspended THEN Len(Edited(r.line)) ELSE r.cnt
                    IN  n <= r.asked /\ SubSeq(r.buf, 1, n) = Edited(r.line)
  BY DEF LineDelivered
<1>1. PICK r \in ReaderRecord : r = reader[p] /\ HoldsLine(r)
  BY DEF Types, TaskTypes, LineInv
<1>2. PICK n : n = IF r.suspended THEN Len(Edited(r.line)) ELSE r.cnt
  OBVIOUS
<1>3. n = Len(Edited(r.line))
  BY <1>1, <1>2 DEF LineInv
<1>4. PICK e \in Seq(Printable) : /\ e = Edited(r.line) /\ Len(e) = n /\ Len(r.buf) = r.asked
                                /\ n <= r.asked /\ \A i \in 1 .. n : r.buf[i] = e[i]
  BY <1>1, <1>3 DEF HoldsLine
<1>5. n \in Nat /\ \A i \in 1 .. n : e[i] \in Printable
  BY <1>4, ElementOfSeq
<1>6. \A i \in 1 .. n : r.buf[i] \in Printable
  BY <1>4, <1>5
<1>7. PICK s : s = SubSeq(r.buf, 1, n)
  OBVIOUS
<1>8. s \in Seq(Printable) /\ Len(s) = n /\ \A i \in 1 .. n : s[i] = r.buf[i]
  <2>1. Len(s) = IF 1 <= n THEN n - 1 + 1 ELSE 0
    BY <1>5, <1>6, <1>7, SubSeqProperties
  <2>2. s \in Seq(Printable) /\ \A i \in 1 .. n - 1 + 1 : s[i] = r.buf[1 + i - 1]
    BY <1>5, <1>6, <1>7, SubSeqProperties
  <2> QED
    BY <1>5, <2>1, <2>2
<1>9. s = e
  BY <1>4, <1>8, SeqEqual
<1> QED
  BY <1>1, <1>2, <1>4, <1>7, <1>9

\* A process that waits for a line is the one that its terminal will resume, with as
\* many bytes left as it asked for and has not got, unless another process has read
\* that terminal since (tty_do_read) or it asked for nothing, and the TTY task is
\* about to resume it when nothing is left: for every number of terminals and
\* processes, and for all sizes of the queues and requests.
THEOREM ReadersAlwaysKnown == Spec => []ReadersKnown
BY ReadInvAlways, KnownReaders, PTL DEF ReadInv

\* The buffer of a process begins with the line that the keys taken for it write,
\* backspaces taken into account (tty_dev_write), never more than it asked for.
THEOREM LinesAlwaysDelivered == Spec => []LineDelivered
BY ReadInvAlways, LinesHeld, PTL DEF ReadInv

\* The queues, counts and pointers of the terminals and of the keyboard driver keep
\* their bounds, whatever is typed.
THEOREM TerminalTypes == Spec => []TypeOK
BY ReadInvAlways, TypesTypeOK, PTL DEF ReadInv

-----------------------------------------------------------------------------
(* The ring buffer *)

\* The cell that is i places behind p.
Nth(p, i) == IF p + i < KB_BUF + LEN_KB_IN_BUFFER THEN p + i ELSE p + i - LEN_KB_IN_BUFFER

\* Moving a pointer on is moving to the next place, and no two places are one
\* cell.
LEMMA NthFacts ==
    ASSUME NEW p \in Cells, NEW i \in 0 .. LEN_KB_IN_BUFFER - 1
    PROVE  /\ Nth(p, i) \in Cells
           /\ Nth(p, i + 1) = Advance(Nth(p, i))
           /\ Nth(Advance(p), i) = Nth(p, i + 1)
           /\ \A j \in 0 .. LEN_KB_IN_BUFFER - 1 : Nth(p, j) = Nth(p, i) => j = i
BY KeyboardAssumption DEF Cells, Nth, Advance

LEMMA NthZero == ASSUME NEW p \in Cells PROVE Nth(p, 0) = p
BY KeyboardAssumption DEF Cells, Nth

\* B has, from its nx-th byte to its N-th, the bytes in the buffer and then those
\* that the keyboard has yet to send.
Buffered(nx, N, B) ==
    /\ nx \in Nat \ {0} /\ N \in Nat /\ N + 1 = nx + count + Len(wire)
    /\ p_head = Nth(p_tail, count)
    /\ \A i \in 0 .. count - 1 : cell[Nth(p_tail, i)] = B[nx + i]
    /\ \A i \in 1 .. Len(wire) : wire[i] = B[nx + count + i - 1]

LEMMA TailElements ==
    ASSUME NEW S, NEW s \in Seq(S), s # << >>
    PROVE  /\ Head(s) = s[1] /\ Len(s) \in Nat \ {0} /\ Len(Tail(s)) = Len(s) - 1
           /\ Tail(s) \in Seq(S)
           /\ \A i \in 1 .. Len(s) - 1 : Tail(s)[i] = s[i + 1]
<1>1. Len(s) \in Nat \ {0}
  OBVIOUS
<1> QED
  BY <1>1, HeadTailProperties

\* The interrupt handler moves a byte from the keyboard to the buffer: the
\* order stays.
LEMMA HandlerBuffered ==
    ASSUME Types, keyboard_handler, count < LEN_KB_IN_BUFFER,
           NEW nx, NEW N, NEW B, Buffered(nx, N, B)
    PROVE  Buffered(nx, N, B)'
<1>1. PICK c \in 0 .. LEN_KB_IN_BUFFER - 1 : c = count /\ count' = c + 1
  BY CellsFacts DEF keyboard_handler, Types, DriverTypes
<1>2. PICK n \in Nat \ {0} : n = Len(wire)
  BY TailElements DEF keyboard_handler, Types, DriverTypes
<1>3. PICK w \in Seq(Bytes) : /\ w = wire' /\ Len(w) = n - 1 /\ \A i \in 1 .. n - 1 : w[i] = wire[i + 1]
  <2>1. PICK s \in Seq(Bytes) : s = wire /\ s # << >> /\ wire' = Tail(s)
    BY DEF keyboard_handler, Types, DriverTypes
  <2>2. /\ Len(Tail(s)) = Len(s) - 1 /\ Tail(s) \in Seq(Bytes)
        /\ \A i \in 1 .. Len(s) - 1 : Tail(s)[i] = s[i + 1]
    BY <2>1, TailElements
  <2>3. Len(s) = n
    BY <1>2, <2>1
  <2> QED
    BY <2>1, <2>2, <2>3
<1>4. PICK p \in Cells : p = p_tail /\ p = p_tail'
  BY DEF keyboard_handler, Types, DriverTypes
<1>5. /\ nx \in Nat \ {0} /\ N \in Nat /\ N + 1 = nx + c + n
      /\ p_head = Nth(p, c)
      /\ \A i \in 0 .. c - 1 : cell[Nth(p, i)] = B[nx + i]
      /\ \A i \in 1 .. n : wire[i] = B[nx + c + i - 1]
  BY <1>1, <1>2, <1>4 DEF Buffered
<1>6. cell' = [cell EXCEPT ![p_head] = wire[1]] /\ p_head' = Advance(p_head)
  BY TailElements DEF keyboard_handler, Types, DriverTypes
<1>7. N + 1 = nx + (c + 1) + (n - 1)
  BY <1>5
<1>8. p_head' = Nth(p, c + 1) /\ p_head \in Cells
  BY <1>5, <1>6, NthFacts
<1>9. ASSUME NEW i \in 0 .. (c + 1) - 1 PROVE cell'[Nth(p, i)] = B[nx + i]
  <2>1. i \in 0 .. LEN_KB_IN_BUFFER - 1
    BY CellsFacts
  <2>2. Nth(p, i) \in Cells /\ (Nth(p, i) = Nth(p, c) => i = c)
    <3>1. \A j \in 0 .. LEN_KB_IN_BUFFER - 1 : Nth(p, j) = Nth(p, c) => j = c
      BY NthFacts
    <3> QED
      BY <2>1, <3>1, NthFacts
  <2>3. CASE i = c
    <3>1. cell'[Nth(p, c)] = wire[1]
      BY <1>5, <1>6, <1>8 DEF Types, DriverTypes
    <3>2. wire[1] = B[nx + c]
      <4>1. 1 \in 1 .. n /\ nx + c + 1 - 1 = nx + c
        BY <1>5
      <4> QED
        BY <1>5, <4>1
    <3> QED
      BY <2>3, <3>1, <3>2
  <2>4. CASE i # c
    <3>1. cell'[Nth(p, i)] = cell[Nth(p, i)]
      BY <1>5, <1>6, <2>2, <2>4 DEF Types, DriverTypes
    <3>2. i \in 0 .. c - 1
      BY <2>4
    <3> QED
      BY <1>5, <3>1, <3>2
  <2> QED
    BY <2>3, <2>4
<1>10. ASSUME NEW i \in 1 .. n - 1 PROVE w[i] = B[nx + (c + 1) + i - 1]
  <2>1. i + 1 \in 1 .. n /\ nx + c + (i + 1) - 1 = nx + (c + 1) + i - 1
    BY <1>5
  <2>2. wire[i + 1] = B[nx + c + (i + 1) - 1]
    BY <1>5, <2>1
  <2> QED
    BY <1>3, <2>1, <2>2
<1> QED
  BY <1>1, <1>3, <1>4, <1>5, <1>7, <1>8, <1>9, <1>10 DEF Buffered

\* The next byte is read.
LEMMA ReadBuffered ==
    ASSUME Types, get_byte_from_kb_buf, UNCHANGED <<wire, p_head>>,
           NEW nx, NEW N, NEW B, Buffered(nx, N, B)
    PROVE  Buffered(nx + 1, N, B)' /\ cell[p_tail] = B[nx] /\ nx <= N
<1>1. PICK c \in 1 .. LEN_KB_IN_BUFFER : c = count /\ count' = c - 1
  BY CellsFacts DEF get_byte_from_kb_buf, Types, DriverTypes
<1>2. PICK n \in Nat : n = Len(wire)
  BY DEF Types, DriverTypes
<1>3. PICK p \in Cells : p = p_tail
  BY DEF Types, DriverTypes
<1>4. PICK q \in Cells : q = p_tail' /\ q = Advance(p)
  BY <1>3, CellsFacts DEF get_byte_from_kb_buf
<1>5. /\ nx \in Nat \ {0} /\ N \in Nat /\ N + 1 = nx + c + n
      /\ p_head = Nth(p, c)
      /\ \A i \in 0 .. c - 1 : cell[Nth(p, i)] = B[nx + i]
      /\ \A i \in 1 .. n : wire[i] = B[nx + c + i - 1]
  BY <1>1, <1>2, <1>3 DEF Buffered
<1>6. \A i \in 0 .. LEN_KB_IN_BUFFER - 1 : Nth(q, i) = Nth(p, i + 1)
  BY <1>4, NthFacts
<1>7. N + 1 = (nx + 1) + (c - 1) + n /\ nx + 1 \in Nat \ {0} /\ nx <= N
  BY <1>5
<1>8. cell[p] = B[nx]
  <2>1. Nth(p, 0) = p /\ 0 \in 0 .. c - 1 /\ nx + 0 = nx
    BY <1>5, NthZero
  <2> QED
    BY <1>5, <2>1
<1>9. p_head' = Nth(q, c - 1)
  <2>1. c - 1 \in 0 .. LEN_KB_IN_BUFFER - 1 /\ (c - 1) + 1 = c
    BY CellsFacts
  <2> QED
    BY <1>5, <1>6, <2>1
<1>10. ASSUME NEW i \in 0 .. (c - 1) - 1 PROVE cell'[Nth(q, i)] = B[(nx + 1) + i]
  <2>1. /\ i \in 0 .. LEN_KB_IN_BUFFER - 1 /\ i + 1 \in 0 .. LEN_KB_IN_BUFFER - 1
        /\ i + 1 \in 0 .. c - 1 /\ (nx + 1) + i = nx + (i + 1) /\ 0 \in 0 .. LEN_KB_IN_BUFFER - 1
    BY <1>5, CellsFacts
  <2>2. Nth(q, i) = Nth(p, i + 1)
    BY <1>6, <2>1
  <2>3. Nth(p, i + 1) # p /\ Nth(p, i + 1) \in Cells
    <3>1. \A j \in 0 .. LEN_KB_IN_BUFFER - 1 : Nth(p, j) = Nth(p, 0) => j = 0
      BY <2>1, NthFacts
    <3>2. i + 1 # 0 /\ Nth(p, 0) = p
      BY NthZero
    <3>3. Nth(p, i + 1) \in Cells
      BY <2>1, NthFacts
    <3> QED
      BY <2>1, <3>1, <3>2, <3>3
  <2>4. cell'[Nth(p, i + 1)] = cell[Nth(p, i + 1)]
    BY <1>3, <2>3 DEF get_byte_from_kb_buf, Types, DriverTypes
  <2> QED
    BY <1>5, <2>1, <2>2, <2>4
<1>11. ASSUME NEW i \in 1 .. n PROVE wire'[i] = B[(nx + 1) + (c - 1) + i - 1]
  <2>1. nx + c + i - 1 = (nx + 1) + (c - 1) + i - 1
    BY <1>5
  <2> QED
    BY <1>5, <2>1
<1>12. PICK nx1 : nx1 = nx + 1
  OBVIOUS
<1>13. Buffered(nx1, N, B)'
  BY <1>1, <1>2, <1>4, <1>5, <1>7, <1>9, <1>10, <1>11, <1>12 DEF Buffered
<1> QED
  BY <1>3, <1>7, <1>8, <1>12, <1>13

-----------------------------------------------------------------------------
(* Bytes, keys and what they write *)

\* What a key that is done with has written.
Writes(M, k, up) == IF up THEN << >> ELSE Written(M, k)

\* The bytes nx to N are the codes of keys that were pressed or let go: byte i is
\* B[i], byte O[i] of the code C[i] of key K[i], let go if U[i]; before it is read
\* the modifiers are M[i] and W[i] is written.
Labelled(nx, N, K, U, C, O, B, M, W) ==
    /\ \A i \in nx .. N : /\ K[i] \in Keys /\ U[i] \in BOOLEAN /\ C[i] = Codes(K[i], U[i])
                          /\ C[i] \in Seq(Bytes) /\ O[i] \in 1 .. Len(C[i]) /\ B[i] = C[i][O[i]]
    /\ \A i \in nx .. N : O[i] # Len(C[i]) =>
          /\ i + 1 \in nx .. N
          /\ K[i + 1] = K[i] /\ U[i + 1] = U[i] /\ C[i + 1] = C[i] /\ O[i + 1] = O[i] + 1
          /\ M[i + 1] = M[i] /\ W[i + 1] = W[i]
    /\ \A i \in nx .. N : O[i] = Len(C[i]) =>
          /\ i + 1 \in nx .. N => O[i + 1] = 1
          /\ M[i + 1] = Pressed(M[i], K[i], U[i])
          /\ W[i + 1] = W[i] \o Writes(M[i], K[i], U[i])
    /\ \A i \in nx .. N + 1 : W[i] \in Seq(Syms)
    /\ \A i, j \in nx .. N + 1 : i <= j => Len(W[i]) <= Len(W[j])

\* Between what the driver has done and what was typed.
Between(nx, N, C, O, M, W) ==
    /\ M[nx] = KbMods(kb_state) /\ M[N + 1] = held \cap ModNames
    /\ W[nx] = tty[pc.tty].key_buf /\ W[N + 1] = meant
    /\ nx <= N => O[nx] = Len(code) + 1 /\ \A i \in 1 .. Len(code) : code[i] = C[nx][i]
    /\ nx > N => code = << >>

\* The bytes, their keys, and the state of the driver and of what was typed,
\* together.
Follows(nx, N, K, U, C, O, B, M, W) ==
    /\ Labelled(nx, N, K, U, C, O, B, M, W)
    /\ Buffered(nx, N, B)
    /\ Between(nx, N, C, O, M, W)

\* As long as no key was thrown away there are keys for the bytes that are
\* under way.
KeysInv ==
    ~dropped => \E nx, N, K, U, C, O, B, M, W : Follows(nx, N, K, U, C, O, B, M, W)

\* Only the terminal that the TTY task is at has keys in its queue.
QueuesInv ==
    /\ \A u \in Ttys \ {pc.tty} : tty[u].key_buf = << >>
    /\ pc.at = "receive" => tty[pc.tty].key_buf = << >>

\* The bytes from the second on.
LEMMA LabelledNext ==
    ASSUME NEW nx \in Nat \ {0}, NEW N \in Nat, nx <= N,
           NEW K, NEW U, NEW C, NEW O, NEW B, NEW M, NEW W,
           Labelled(nx, N, K, U, C, O, B, M, W)
    PROVE  Labelled(nx + 1, N, K, U, C, O, B, M, W)
<1>1. /\ \A i \in nx + 1 .. N : i \in nx .. N
      /\ \A i \in nx + 1 .. N + 1 : i \in nx .. N + 1
      /\ \A i \in nx + 1 .. N : i + 1 \in nx .. N <=> i + 1 \in nx + 1 .. N
  OBVIOUS
<1>2. PICK nx1 \in Nat : nx1 = nx + 1
  OBVIOUS
<1>3. \A i \in nx1 .. N : /\ K[i] \in Keys /\ U[i] \in BOOLEAN /\ C[i] = Codes(K[i], U[i])
                          /\ C[i] \in Seq(Bytes) /\ O[i] \in 1 .. Len(C[i]) /\ B[i] = C[i][O[i]]
  BY <1>1, <1>2, Zenon DEF Labelled
<1>4. \A i \in nx1 .. N : O[i] # Len(C[i]) =>
          /\ i + 1 \in nx1 .. N
          /\ K[i + 1] = K[i] /\ U[i + 1] = U[i] /\ C[i + 1] = C[i] /\ O[i + 1] = O[i] + 1
          /\ M[i + 1] = M[i] /\ W[i + 1] = W[i]
  BY <1>1, <1>2, Zenon DEF Labelled
<1>5. \A i \in nx1 .. N : O[i] = Len(C[i]) =>
          /\ i + 1 \in nx1 .. N => O[i + 1] = 1
          /\ M[i + 1] = Pressed(M[i], K[i], U[i])
          /\ W[i + 1] = W[i] \o Writes(M[i], K[i], U[i])
  BY <1>1, <1>2, Zenon DEF Labelled
<1>6. /\ \A i \in nx1 .. N + 1 : W[i] \in Seq(Syms)
      /\ \A i, j \in nx1 .. N + 1 : i <= j => Len(W[i]) <= Len(W[j])
  BY <1>1, <1>2, Zenon DEF Labelled
<1> QED
  BY <1>2, <1>3, <1>4, <1>5, <1>6, Zenon DEF Labelled

\* The keyboard's interrupt.
LEMMA HandlerKeys ==
    ASSUME Types, KeysInv, keyboard_handler, UNCHANGED <<pc, current_console, tty, reader>>
    PROVE  KeysInv'
<1>1. CASE count < LEN_KB_IN_BUFFER
  <2> SUFFICES ASSUME ~dropped'
               PROVE  \E nx, N, K, U, C, O, B, M, W : Follows(nx, N, K, U, C, O, B, M, W)'
    BY DEF KeysInv
  <2>1. dropped' = dropped /\ meant' = meant /\ UNCHANGED <<held, kb_state, code>>
    BY <1>1 DEF keyboard_handler, Drop, Types, DriverTypes
  <2>2. PICK nx, N, K, U, C, O, B, M, W : Follows(nx, N, K, U, C, O, B, M, W)
    BY <2>1 DEF KeysInv
  <2>3. Labelled(nx, N, K, U, C, O, B, M, W) /\ Buffered(nx, N, B)' 
    BY <1>1, <2>2, HandlerBuffered DEF Follows
  <2>4. Between(nx, N, C, O, M, W)'
    BY <2>1, <2>2 DEF Follows, Between
  <2>5. Follows(nx, N, K, U, C, O, B, M, W)'
    BY <2>3, <2>4 DEF Follows, Labelled
  <2> QED
    BY <2>5, Zenon
<1>2. CASE ~(count < LEN_KB_IN_BUFFER)
  <2>1. dropped' = TRUE
    BY <1>2 DEF keyboard_handler, Drop, Types, DriverTypes
  <2> QED
    BY <2>1 DEF KeysInv
<1> QED
  BY <1>1, <1>2

-----------------------------------------------------------------------------
(* keyboard_read *)

\* A step that throws nothing away.
LEMMA DropFacts ==
    ASSUME Types, NEW b \in BOOLEAN, Drop(b), ~dropped'
    PROVE  ~b /\ ~dropped /\ meant' = meant
BY DEF Drop, Types, DriverTypes

\* keyboard_read makes of a whole code what the key stands for.
LEMMA ProcessKey ==
    ASSUME Types, NEW k \in Keys, NEW up \in BOOLEAN, NEW g, g = Codes(k, up), g # << >>,
           NEW t \in Ttys, ProcessCode(t, g), ~dropped'
    PROVE  /\ ~dropped /\ meant' = meant
           /\ KbMods(kb_state') = Pressed(KbMods(kb_state), k, up)
           /\ tty'[t].key_buf = tty[t].key_buf \o Writes(KbMods(kb_state), k, up)
<1>0. PICK q \in Seq(Syms) : q = tty[t].key_buf /\ q \o << >> = q
  <2>1. tty[t].key_buf \in Seq(Syms)
    BY DEF Types, TaskTypes, TtyRecord
  <2>2. PICK q \in Seq(Syms) : q = tty[t].key_buf
    BY <2>1
  <2>3. q \o << >> = q
    BY ConcatEmptySeq
  <2> QED
    BY <2>2, <2>3
<1>1. CASE k \in Special
  <2>1. g \in Specials
    BY <1>1, WholeCode
  <2>2. Drop(g \notin Specials) /\ UNCHANGED <<kb_state, tty>>
    BY <2>1 DEF ProcessCode
  <2>3. PICK b \in BOOLEAN : b = (g \notin Specials)
    OBVIOUS
  <2>4. ~dropped /\ meant' = meant
    BY <2>2, <2>3, DropFacts
  <2>5. Pressed(KbMods(kb_state), k, up) = KbMods(kb_state)
    BY <1>1 DEF Pressed, Special
  <2>6. Writes(KbMods(kb_state), k, up) = << >>
    BY <1>1 DEF Writes, Written, Special
  <2> QED
    BY <1>0, <2>2, <2>4, <2>5, <2>6
<1>2. CASE k \in RegularKeys
  <2>1. g \notin Specials /\ RegularByte(g) = <<RowOf(k), up>>
    BY <1>2, WholeCode DEF RegularKeys
  <2>2. code_with_E0(g) = (k \in DOMAIN Extended)
    BY <1>2, WholeCode DEF code_with_E0
  <2>3. ~skipping
    <3> SUFFICES ASSUME skipping PROVE FALSE
      OBVIOUS
    <3>1. Drop(g \notin Specials)
      BY DEF ProcessCode
    <3>2. PICK b \in BOOLEAN : b = (g \notin Specials) /\ Drop(b)
      BY <3>1
    <3> QED
      BY <2>1, <3>2, DropFacts
  <2>4. PICK key : key = KeyOf(<<RowOf(k), up>>, k \in DOMAIN Extended)
    OBVIOUS
  <2>5. /\ kb_state' = StateAfter(key, ~up)
        /\ IF ~up THEN tty_process_key(t, process_numpad_key(key))
                  ELSE Drop(FALSE) /\ UNCHANGED <<tty, current_console>>
    <3>1. key = KeyOf(RegularByte(g), code_with_E0(g)) /\ RegularByte(g)[2] = up
      BY <2>1, <2>2, <2>4
    <3> QED
      BY <2>1, <2>3, <3>1 DEF ProcessCode
  <2>6. KbMods(kb_state') = Pressed(KbMods(kb_state), k, up)
    BY <1>2, <2>4, <2>5, KeyMods DEF Types, DriverTypes
  <2>7. Enqueued(process_numpad_key(key)) = Written(KbMods(kb_state), k)
    BY <1>2, <2>4, KeyWritten DEF Types, DriverTypes
  <2>8. CASE up
    <3>1. Drop(FALSE) /\ UNCHANGED tty
      BY <2>5, <2>8
    <3>2. ~dropped /\ meant' = meant
      BY <3>1, DropFacts
    <3>3. Writes(KbMods(kb_state), k, up) = << >>
      BY <2>8 DEF Writes
    <3> QED
      BY <1>0, <2>6, <3>1, <3>2, <3>3
  <2>9. CASE ~up
    <3>1. PICK s \in Seq(Syms) : s = Written(KbMods(kb_state), k)
      BY WrittenType
    <3>2. tty_key_enqueue(t, s)
      BY <2>5, <2>7, <2>9, <3>1 DEF tty_process_key
    <3>3. CASE Len(tty[t].key_buf \o s) <= TTY_QUEUE_SIZE
      <4>1. tty' = [tty EXCEPT ![t].key_buf = @ \o s] /\ Drop(FALSE)
        BY <3>2, <3>3 DEF tty_key_enqueue
      <4>2. ~dropped /\ meant' = meant
        BY <4>1, DropFacts
      <4>3. tty'[t].key_buf = tty[t].key_buf \o s
        BY <4>1 DEF Types, TaskTypes, TtyRecord
      <4>4. Writes(KbMods(kb_state), k, up) = s
        BY <2>9, <3>1 DEF Writes
      <4> QED
        BY <2>6, <4>2, <4>3, <4>4
    <3>4. CASE ~(Len(tty[t].key_buf \o s) <= TTY_QUEUE_SIZE)
      <4>1. Drop(TRUE)
        BY <3>2, <3>4 DEF tty_key_enqueue
      <4> QED
        BY <4>1, DropFacts
    <3> QED
      BY <3>3, <3>4
  <2> QED
    BY <2>8, <2>9
<1> QED
  BY <1>1, <1>2 DEF RegularKeys

\* keyboard_read takes the next byte: it waits for more, or the key is done
\* with.
LEMMA ReadKeys ==
    ASSUME Types, KeysInv, keyboard_read
    PROVE  KeysInv'
<1> SUFFICES ASSUME ~dropped'
             PROVE  \E nx, N, K, U, C, O, B, M, W : Follows(nx, N, K, U, C, O, B, M, W)'
  BY DEF KeysInv
<1>1. PICK g : g = Append(code, cell[p_tail])
  OBVIOUS
<1>2. /\ get_byte_from_kb_buf /\ UNCHANGED <<wire, p_head, held>> /\ pc'.tty = pc.tty
      /\ IF Unfinished(g)
         THEN code' = g /\ UNCHANGED <<kb_state, skipping, meant, dropped, pc, current_console, tty>>
         ELSE code' = << >> /\ ProcessCode(pc.tty, g)
  <2>1. /\ get_byte_from_kb_buf /\ UNCHANGED <<wire, p_head, held>>
        /\ IF Unfinished(g)
           THEN code' = g /\ UNCHANGED <<kb_state, skipping, meant, dropped, pc, current_console, tty>>
           ELSE code' = << >> /\ ProcessCode(pc.tty, g)
    BY <1>1 DEF keyboard_read
  <2> QED
    BY <2>1, ReadSameReads
<1>3. ~dropped
  <2>1. ASSUME NEW b \in BOOLEAN, Drop(b) PROVE ~dropped
    BY <2>1, DropFacts
  <2>2. ProcessCode(pc.tty, g) => \E b \in BOOLEAN : Drop(b)
    BY Zenon DEF ProcessCode, tty_process_key, tty_key_enqueue
  <2> QED
    BY <1>2, <2>1, <2>2
<1>4. PICK nx, N, K, U, C, O, B, M, W : Follows(nx, N, K, U, C, O, B, M, W)
  BY <1>3 DEF KeysInv
<1>5. /\ Labelled(nx, N, K, U, C, O, B, M, W) /\ Buffered(nx, N, B)
      /\ Between(nx, N, C, O, M, W)
  BY <1>4 DEF Follows
<1>6. nx \in Nat \ {0} /\ N \in Nat
  BY <1>5 DEF Buffered
<1>7. Buffered(nx + 1, N, B)' /\ cell[p_tail] = B[nx] /\ nx <= N
  BY <1>2, <1>5, ReadBuffered
<1>8. Labelled(nx + 1, N, K, U, C, O, B, M, W)
  BY <1>5, <1>6, <1>7, LabelledNext
<1>9. nx \in nx .. N
  BY <1>6, <1>7
<1>10. PICK k \in Keys, up \in BOOLEAN, c \in Seq(Bytes) :
          k = K[nx] /\ up = U[nx] /\ c = C[nx] /\ c = Codes(k, up)
  BY <1>5, <1>9 DEF Labelled
<1>11. PICK o \in 1 .. Len(c) : o = O[nx] /\ B[nx] = c[o]
  BY <1>5, <1>9, <1>10 DEF Labelled
<1>12. o = Len(code) + 1 /\ \A i \in 1 .. Len(code) : code[i] = c[i]
  BY <1>5, <1>7, <1>10, <1>11 DEF Between
<1>13. g \in Seq(Bytes) /\ Len(g) = o /\ \A i \in 1 .. o : g[i] = c[i]
  <2>1. code \in Seq(Bytes) /\ Len(code) \in Nat /\ c[o] \in Bytes
    BY <1>11, ElementOfSeq DEF Types, DriverTypes
  <2>2. PICK d \in Seq(Bytes), n \in Nat : d = code /\ n = Len(code) /\ n = Len(d)
    BY <2>1
  <2>3. g = Append(d, c[o])
    BY <1>1, <1>7, <1>11, <2>2
  <2>4. g \in Seq(Bytes) /\ Len(g) = n + 1 /\ g[n + 1] = c[o] /\ \A i \in 1 .. n : g[i] = d[i]
    BY <2>1, <2>2, <2>3, AppendProperties
  <2>5. o = n + 1 /\ \A i \in 1 .. n : d[i] = c[i]
    BY <1>12, <2>2
  <2> QED
    BY <2>2, <2>4, <2>5
<1>14. PICK nx1 \in Nat \ {0} : nx1 = nx + 1
  BY <1>6
<1>15. M[nx] = KbMods(kb_state) /\ M[N + 1] = held \cap ModNames
       /\ W[nx] = tty[pc.tty].key_buf /\ W[N + 1] = meant
  BY <1>5 DEF Between
<1>16. CASE o # Len(c)
  <2>1. Unfinished(g)
    <3>1. Len(g) > 0 /\ Len(g) < Len(c) /\ \A i \in 1 .. Len(g) : g[i] = c[i]
      BY <1>11, <1>13, <1>16
    <3> QED
      BY <1>10, <1>13, <3>1, BeginningUnfinished
  <2>2. code' = g /\ UNCHANGED <<kb_state, meant, tty>>
    BY <1>2, <2>1
  <2>3. /\ nx1 \in nx .. N /\ C[nx1] = c /\ O[nx1] = o + 1 /\ M[nx1] = M[nx] /\ W[nx1] = W[nx]
    BY <1>5, <1>9, <1>10, <1>11, <1>14, <1>16 DEF Labelled
  <2>4. Between(nx1, N, C, O, M, W)'
    <3>1. nx1 <= N /\ ~(nx1 > N)
      BY <1>6, <1>14, <2>3
    <3> QED
      BY <1>2, <1>13, <1>15, <2>2, <2>3, <3>1 DEF Between
  <2>5. Follows(nx1, N, K, U, C, O, B, M, W)'
    BY <1>7, <1>8, <1>14, <2>4 DEF Follows, Labelled
  <2> QED
    BY <2>5, Zenon
<1>17. CASE o = Len(c)
  <2>1. g = c /\ g # << >>
    <3>1. g = c
      BY <1>13, <1>17, SeqEqual
    <3> QED
      BY <1>11, <1>13, <3>1
  <2>2. ~Unfinished(g)
    BY <1>10, <2>1, WholeCode
  <2>3. PICK t \in Ttys : t = pc.tty
    BY DEF Types, TaskTypes, Pcs
  <2>4. code' = << >> /\ ProcessCode(t, g)
    BY <1>2, <2>2, <2>3
  <2>5. /\ meant' = meant
        /\ KbMods(kb_state') = Pressed(KbMods(kb_state), k, up)
        /\ tty'[t].key_buf = tty[t].key_buf \o Writes(KbMods(kb_state), k, up)
    <3>1. g = Codes(k, up)
      BY <1>10, <2>1
    <3> QED
      BY <2>1, <2>4, <3>1, ProcessKey
  <2>6. /\ nx1 \in nx .. N => O[nx1] = 1
        /\ M[nx1] = Pressed(M[nx], k, up)
        /\ W[nx1] = W[nx] \o Writes(M[nx], k, up)
    BY <1>5, <1>9, <1>10, <1>11, <1>14, <1>17 DEF Labelled
  <2>7. Between(nx1, N, C, O, M, W)'
    <3>1. nx1 <= N => nx1 \in nx .. N
      BY <1>6, <1>14
    <3>2. Len(<< >>) = 0
      OBVIOUS
    <3>3. M[nx1] = KbMods(kb_state') /\ W[nx1] = tty'[pc'.tty].key_buf
      BY <1>2, <1>15, <2>3, <2>5, <2>6
    <3>4. M[N + 1] = held' \cap ModNames /\ W[N + 1] = meant'
      BY <1>2, <1>15, <2>5
    <3>5. nx1 <= N => O[nx1] = Len(code') + 1 /\ 1 .. Len(code') = {}
      BY <2>4, <2>6, <3>1, <3>2
    <3> QED
      BY <2>4, <3>3, <3>4, <3>5 DEF Between
  <2>8. Follows(nx1, N, K, U, C, O, B, M, W)'
    BY <1>7, <1>8, <1>14, <2>7 DEF Follows, Labelled
  <2> QED
    BY <2>8, Zenon
<1> QED
  BY <1>16, <1>17

-----------------------------------------------------------------------------
(* One more key is typed: its bytes and labels *)

\* One more key k is pressed or let go: the bytes N + 1 to L are its code c, the
\* modifiers m0 and what is written w before it, m1 and w1 after it.
Added(N, L, k, up, c, m0, m1, w, w1, K, U, C, O, B, M, W, K1, U1, C1, O1, B1, M1, W1) ==
    /\ \A i \in Nat : i <= N => /\ K1[i] = K[i] /\ U1[i] = U[i] /\ C1[i] = C[i]
                                /\ O1[i] = O[i] /\ B1[i] = B[i] /\ M1[i] = M[i] /\ W1[i] = W[i]
    /\ \A i \in Nat : ~(i <= N) => /\ K1[i] = k /\ U1[i] = up /\ C1[i] = c
                                   /\ O1[i] = i - N /\ B1[i] = c[i - N]
    /\ \A i \in Nat : ~(i <= N) /\ i <= L => M1[i] = m0 /\ W1[i] = w
    /\ \A i \in Nat : ~(i <= N) /\ ~(i <= L) => M1[i] = m1 /\ W1[i] = w1

\* The labels of the bytes can be continued.
LEMMA AddedExists ==
    ASSUME NEW N, NEW L, NEW k, NEW up, NEW c, NEW m0, NEW m1, NEW w, NEW w1,
           NEW K, NEW U, NEW C, NEW O, NEW B, NEW M, NEW W
    PROVE  \E K1, U1, C1, O1, B1, M1, W1 :
              Added(N, L, k, up, c, m0, m1, w, w1, K, U, C, O, B, M, W, K1, U1, C1, O1, B1, M1, W1)
<1>1. PICK K1 : K1 = [i \in Nat |-> IF i <= N THEN K[i] ELSE k]
  OBVIOUS
<1>2. PICK U1 : U1 = [i \in Nat |-> IF i <= N THEN U[i] ELSE up]
  OBVIOUS
<1>3. PICK C1 : C1 = [i \in Nat |-> IF i <= N THEN C[i] ELSE c]
  OBVIOUS
<1>4. PICK O1 : O1 = [i \in Nat |-> IF i <= N THEN O[i] ELSE i - N]
  OBVIOUS
<1>5. PICK B1 : B1 = [i \in Nat |-> IF i <= N THEN B[i] ELSE c[i - N]]
  OBVIOUS
<1>6. PICK M1 : M1 = [i \in Nat |-> IF i <= N THEN M[i] ELSE IF i <= L THEN m0 ELSE m1]
  OBVIOUS
<1>7. PICK W1 : W1 = [i \in Nat |-> IF i <= N THEN W[i] ELSE IF i <= L THEN w ELSE w1]
  OBVIOUS
<1>8. \A i \in Nat : /\ K1[i] = IF i <= N THEN K[i] ELSE k
                     /\ U1[i] = IF i <= N THEN U[i] ELSE up
                     /\ C1[i] = IF i <= N THEN C[i] ELSE c
                     /\ O1[i] = IF i <= N THEN O[i] ELSE i - N
                     /\ B1[i] = IF i <= N THEN B[i] ELSE c[i - N]
                     /\ M1[i] = IF i <= N THEN M[i] ELSE IF i <= L THEN m0 ELSE m1
                     /\ W1[i] = IF i <= N THEN W[i] ELSE IF i <= L THEN w ELSE w1
  BY <1>1, <1>2, <1>3, <1>4, <1>5, <1>6, <1>7, Zenon
<1>9. Added(N, L, k, up, c, m0, m1, w, w1, K, U, C, O, B, M, W, K1, U1, C1, O1, B1, M1, W1)
  BY <1>8, Zenon DEF Added
<1> QED
  BY <1>9, Zenon

LEMMA LenType == ASSUME NEW S, NEW s \in Seq(S) PROVE Len(s) \in Nat
OBVIOUS

LEMMA Minus ==
    ASSUME NEW a \in Nat, NEW b \in Nat, NEW m \in Nat \ {0}, a - b = m, NEW c, c = b + m
    PROVE  a = c
OBVIOUS

LEMMA Longer ==
    ASSUME NEW a \in Nat, NEW b \in Nat, a <= b, NEW x, NEW y,
           \/ x \in Nat /\ x <= a /\ (y = a \/ y = b)
           \/ x = b /\ y = b
    PROVE  x <= y
OBVIOUS

\* All of it, for a key that follows the ones there are.
Grown(nx, N, L, k, up, c, m0, m1, w, w1, K, U, C, O, B, M, W, K1, U1, C1, O1, B1, M1, W1) ==
    /\ nx \in Nat \ {0} /\ N \in Nat /\ nx <= N + 1
    /\ Labelled(nx, N, K, U, C, O, B, M, W)
    /\ k \in Keys /\ up \in BOOLEAN /\ c \in Seq(Bytes) /\ c = Codes(k, up) /\ c # << >>
    /\ L \in Nat /\ L = N + Len(c)
    /\ m0 = M[N + 1] /\ m1 = Pressed(m0, k, up)
    /\ w \in Seq(Syms) /\ w = W[N + 1]
    /\ w1 \in Seq(Syms) /\ w1 = w \o Writes(m0, k, up) /\ Len(w) <= Len(w1)
    /\ Added(N, L, k, up, c, m0, m1, w, w1, K, U, C, O, B, M, W, K1, U1, C1, O1, B1, M1, W1)

\* The bytes of one more key have their labels.
LEMMA LabelledMore ==
    ASSUME NEW nx, NEW N, NEW L, NEW k, NEW up, NEW c, NEW m0, NEW m1, NEW w, NEW w1,
           NEW K, NEW U, NEW C, NEW O, NEW B, NEW M, NEW W,
           NEW K1, NEW U1, NEW C1, NEW O1, NEW B1, NEW M1, NEW W1,
           Grown(nx, N, L, k, up, c, m0, m1, w, w1, K, U, C, O, B, M, W, K1, U1, C1, O1, B1, M1, W1)
    PROVE  Labelled(nx, L, K1, U1, C1, O1, B1, M1, W1)
<1>a. /\ nx \in Nat \ {0} /\ N \in Nat /\ nx <= N + 1
      /\ Labelled(nx, N, K, U, C, O, B, M, W)
      /\ k \in Keys /\ up \in BOOLEAN /\ c \in Seq(Bytes) /\ c = Codes(k, up) /\ c # << >>
      /\ L \in Nat /\ L = N + Len(c)
      /\ m0 = M[N + 1] /\ m1 = Pressed(m0, k, up)
      /\ w \in Seq(Syms) /\ w = W[N + 1]
      /\ w1 \in Seq(Syms) /\ w1 = w \o Writes(m0, k, up) /\ Len(w) <= Len(w1)
      /\ Added(N, L, k, up, c, m0, m1, w, w1, K, U, C, O, B, M, W, K1, U1, C1, O1, B1, M1, W1)
  BY Zenon DEF Grown
<1> USE <1>a
<1>0. PICK m \in Nat \ {0} : m = Len(c)
  OBVIOUS
<1>1. L = N + m /\ N + 1 <= L
  BY <1>0
<1>6. ASSUME NEW i \in Nat, i <= N
      PROVE  /\ K1[i] = K[i] /\ U1[i] = U[i] /\ C1[i] = C[i] /\ O1[i] = O[i] /\ B1[i] = B[i]
             /\ M1[i] = M[i] /\ W1[i] = W[i]
  BY <1>6, Zenon DEF Added
<1>7. ASSUME NEW i \in Nat, ~(i <= N)
      PROVE  /\ K1[i] = k /\ U1[i] = up /\ C1[i] = c /\ O1[i] = i - N /\ B1[i] = c[i - N]
             /\ i <= L => M1[i] = m0 /\ W1[i] = w
             /\ ~(i <= L) => M1[i] = m1 /\ W1[i] = w1
  BY <1>7, Zenon DEF Added
<1>8. M1[N + 1] = M[N + 1] /\ W1[N + 1] = W[N + 1] /\ O1[N + 1] = 1
  <2>1. PICK i \in Nat : i = N + 1 /\ ~(i <= N) /\ i <= L /\ i - N = 1
    BY <1>1
  <2>2. M1[i] = m0 /\ W1[i] = w /\ O1[i] = i - N
    BY <1>7, <2>1, Zenon
  <2> QED
    BY <2>1, <2>2, Zenon
<1>9. ASSUME NEW i \in nx .. L
      PROVE  /\ K1[i] \in Keys /\ U1[i] \in BOOLEAN /\ C1[i] = Codes(K1[i], U1[i])
             /\ C1[i] \in Seq(Bytes) /\ O1[i] \in 1 .. Len(C1[i]) /\ B1[i] = C1[i][O1[i]]
  <2>1. CASE i <= N
    <3>1. i \in nx .. N /\ i \in Nat
      BY <2>1
    <3>2. /\ K[i] \in Keys /\ U[i] \in BOOLEAN /\ C[i] = Codes(K[i], U[i])
          /\ C[i] \in Seq(Bytes) /\ O[i] \in 1 .. Len(C[i]) /\ B[i] = C[i][O[i]]
      BY <3>1, Zenon DEF Labelled
    <3>3. K1[i] = K[i] /\ U1[i] = U[i] /\ C1[i] = C[i] /\ O1[i] = O[i] /\ B1[i] = B[i]
      BY <1>6, <2>1, <3>1, Zenon
    <3> QED
      BY <3>2, <3>3, Zenon
  <2>2. CASE ~(i <= N)
    <3>1. i \in Nat /\ i - N \in 1 .. m
      BY <1>1, <2>2
    <3>2. K1[i] = k /\ U1[i] = up /\ C1[i] = c /\ O1[i] = i - N /\ B1[i] = c[i - N]
      BY <1>7, <2>2, <3>1
    <3> QED
      BY <3>1, <3>2
  <2> QED
    BY <2>1, <2>2
<1>10. ASSUME NEW i \in nx .. L, O1[i] # Len(C1[i])
       PROVE  /\ i + 1 \in nx .. L
              /\ K1[i + 1] = K1[i] /\ U1[i + 1] = U1[i] /\ C1[i + 1] = C1[i] /\ O1[i + 1] = O1[i] + 1
              /\ M1[i + 1] = M1[i] /\ W1[i + 1] = W1[i]
  <2>1. CASE i <= N
    <3>1. i \in nx .. N /\ i \in Nat
      BY <2>1
    <3>2. /\ i + 1 \in nx .. N
          /\ K[i + 1] = K[i] /\ U[i + 1] = U[i] /\ C[i + 1] = C[i] /\ O[i + 1] = O[i] + 1
          /\ M[i + 1] = M[i] /\ W[i + 1] = W[i]
      BY <1>6, <1>10, <2>1, <3>1 DEF Labelled
    <3>3. i + 1 \in Nat /\ i + 1 <= N /\ i + 1 \in nx .. L
      BY <1>1, <3>2
    <3> QED
      BY <1>6, <2>1, <3>1, <3>2, <3>3
  <2>2. CASE ~(i <= N)
    <3>0. i \in Nat /\ i <= L
      OBVIOUS
    <3>1. i \in Nat /\ O1[i] = i - N /\ C1[i] = c /\ i <= L
      BY <1>7, <2>2, <3>0, Zenon
    <3>2. /\ i + 1 \in nx .. L /\ i + 1 \in Nat /\ ~(i + 1 <= N) /\ i + 1 <= L
          /\ (i + 1) - N = (i - N) + 1
      <4>1. i - N # m
        BY <1>0, <1>10, <3>1, Zenon
      <4>2. i # L
        BY <1>1, <4>1
      <4>3. i + 1 \in Nat /\ ~(i + 1 <= N) /\ (i + 1) - N = (i - N) + 1
        BY <2>2, <3>0
      <4>4. i + 1 <= L /\ i + 1 \in nx .. L
        BY <3>0, <4>2
      <4> QED
        BY <4>3, <4>4
    <3> QED
      BY <1>7, <2>2, <3>1, <3>2
  <2> QED
    BY <2>1, <2>2
<1>11. ASSUME NEW i \in nx .. L, O1[i] = Len(C1[i])
       PROVE  /\ i + 1 \in nx .. L => O1[i + 1] = 1
              /\ M1[i + 1] = Pressed(M1[i], K1[i], U1[i])
              /\ W1[i + 1] = W1[i] \o Writes(M1[i], K1[i], U1[i])
  <2>1. CASE i <= N
    <3>1. i \in nx .. N /\ i \in Nat
      BY <2>1
    <3>2. /\ i + 1 \in nx .. N => O[i + 1] = 1
          /\ M[i + 1] = Pressed(M[i], K[i], U[i])
          /\ W[i + 1] = W[i] \o Writes(M[i], K[i], U[i])
      BY <1>6, <1>11, <2>1, <3>1 DEF Labelled
    <3>3. CASE i + 1 <= N
      <4>1. i + 1 \in Nat /\ i + 1 \in nx .. N
        BY <3>1, <3>3
      <4> QED
        BY <1>6, <2>1, <3>1, <3>2, <3>3, <4>1
    <3>4. CASE ~(i + 1 <= N)
      <4>1. i = N
        BY <2>1, <3>1, <3>4
      <4> QED
        BY <1>6, <1>8, <2>1, <3>1, <3>2, <4>1
    <3> QED
      BY <3>3, <3>4
  <2>2. CASE ~(i <= N)
    <3>0. i \in Nat /\ i <= L
      OBVIOUS
    <3>1. i \in Nat /\ O1[i] = i - N /\ C1[i] = c /\ i <= L /\ K1[i] = k /\ U1[i] = up
      BY <1>7, <2>2, <3>0, Zenon
    <3>a. i - N = m
      BY <1>0, <1>11, <3>1, Zenon
    <3>2. i = L
      <4>1. PICK q \in Nat \ {0} : q = m /\ i - N = q /\ L = N + q
        BY <1>0, <1>1, <3>a, Zenon
      <4>2. PICK a \in Nat, b \in Nat : a = i /\ b = N
        BY <3>0, Zenon
      <4>3. a - b = q /\ L = b + q
        BY <4>1, <4>2, Zenon
      <4>4. a = L
        BY <4>3, Minus, Zenon
      <4> QED
        BY <4>2, <4>4, Zenon
    <3>3. i + 1 \in Nat /\ ~(i + 1 <= N) /\ ~(i + 1 <= L) /\ i + 1 \notin nx .. L
      BY <1>1, <3>2
    <3>4. M1[i] = m0 /\ W1[i] = w /\ M1[i + 1] = m1 /\ W1[i + 1] = w1
      BY <1>7, <2>2, <3>1, <3>3
    <3> QED
      BY <3>1, <3>3, <3>4
  <2> QED
    BY <2>1, <2>2
<1>12. ASSUME NEW i \in nx .. L + 1
       PROVE  /\ i <= N + 1 => W1[i] = W[i] /\ i \in nx .. N + 1
              /\ ~(i <= N + 1) => W1[i] \in {w, w1} /\ (i <= L => W1[i] = w) /\ (~(i <= L) => W1[i] = w1)
  <2>1. CASE i <= N + 1
    <3>1. i \in Nat /\ i \in nx .. N + 1 /\ (i <= N \/ i = N + 1)
      BY <2>1
    <3> QED
      BY <1>6, <1>8, <2>1, <3>1
  <2>2. CASE ~(i <= N + 1)
    <3>1. i \in Nat /\ ~(i <= N)
      BY <2>2
    <3> QED
      BY <1>7, <2>2, <3>1
  <2> QED
    BY <2>1, <2>2
<1>13. \A i \in nx .. N + 1 : W[i] \in Seq(Syms) /\ Len(W[i]) <= Len(w)
  <2>1. N + 1 \in nx .. N + 1 /\ \A i \in nx .. N + 1 : i <= N + 1
    OBVIOUS
  <2> QED
    BY <2>1 DEF Labelled
<1>14. \A i \in nx .. L + 1 : W1[i] \in Seq(Syms)
  BY <1>12, <1>13
<1>15. ASSUME NEW i \in nx .. L + 1, NEW j \in nx .. L + 1, i <= j
       PROVE  Len(W1[i]) <= Len(W1[j])
  <2>1. CASE j <= N + 1
    <3>1. i <= N + 1
      BY <1>15, <2>1
    <3> QED
      BY <1>12, <1>15, <2>1, <3>1 DEF Labelled
  <2>2. CASE ~(j <= N + 1)
    <3>1. PICK a \in Nat : a = Len(w)
      OBVIOUS
    <3>2a. PICK b \in Nat : b = Len(w1)
      BY LenType, Zenon
    <3>2. b = Len(w1) /\ a <= b
      BY <3>1, <3>2a, Zenon
    <3>x. PICK x : x = Len(W1[i])
      OBVIOUS
    <3>y. PICK y : y = Len(W1[j])
      OBVIOUS
    <3>3. /\ j <= L => Len(W1[j]) = a
          /\ ~(j <= L) => Len(W1[j]) = b
      BY <1>12, <2>2, <3>1, <3>2, Zenon
    <3>y1. (j <= L /\ y = a) \/ (~(j <= L) /\ y = b)
      BY <3>3, <3>y, Zenon
    <3>4. CASE i <= N + 1
      <4>1. PICK v \in Seq(Syms) : v = W1[i] /\ Len(v) <= Len(w)
        BY <1>12, <1>13, <3>4, Zenon
      <4>2. PICK d \in Nat : d = Len(v)
        OBVIOUS
      <4>3. x = d /\ d <= a
        BY <3>1, <3>x, <4>1, <4>2, Zenon
      <4>4. x <= y
        BY <3>2, <3>y1, <4>3, Longer, Zenon
      <4> QED
        BY <3>x, <3>y, <4>4, Zenon
    <3>5. CASE ~(i <= N + 1)
      <4>1. /\ i <= L => Len(W1[i]) = a
            /\ ~(i <= L) => Len(W1[i]) = b
        BY <1>12, <3>5, <3>1, <3>2, Zenon
      <4>2. ~(i <= L) => ~(j <= L)
        BY <1>15
      <4>3. (i <= L /\ x = a) \/ (~(i <= L) /\ x = b)
        BY <3>x, <4>1, Zenon
      <4>3a. \/ x = a /\ (y = a \/ y = b)
             \/ x = b /\ y = b
        BY <3>y1, <4>2, <4>3, Zenon
      <4>3b. a <= a
        BY <3>1
      <4>4. x <= y
        BY <3>2, <4>3a, <4>3b, Longer, Zenon
      <4> QED
        BY <3>x, <3>y, <4>4, Zenon
    <3> QED
      BY <3>4, <3>5
  <2> QED
    BY <2>1, <2>2
<1>16. Labelled(nx, L, K1, U1, C1, O1, B1, M1, W1)
  BY <1>9, <1>10, <1>11, <1>14, <1>15, Zenon DEF Labelled
<1> QED
  BY <1>16

-----------------------------------------------------------------------------
(* One more key is typed *)

LEMMA WritesType == ASSUME NEW M, NEW k, NEW up PROVE Writes(M, k, up) \in Seq(Syms)
<1>1. << >> \in Seq(Syms)
  OBVIOUS
<1> QED
  BY <1>1, WrittenType, Zenon DEF Writes

\* What a key that is pressed or let go changes.
LEMMA TypeFacts ==
    ASSUME Types, Type
    PROVE  \E k \in Keys : \E up \in BOOLEAN :
              /\ wire = << >> /\ wire' = Codes(k, up)
              /\ held' \cap ModNames = Pressed(held \cap ModNames, k, up)
              /\ ~dropped => meant' = meant \o Writes(held \cap ModNames, k, up)
              /\ UNCHANGED <<cell, p_head, p_tail, count, kb_state, code, dropped>>
<1>1. PICK x \in Keys \X BOOLEAN : x = Head(text)
  BY HeadTail DEF Types, DriverTypes, Type
<1>2. PICK k \in Keys, up \in BOOLEAN : k = x[1] /\ up = x[2]
  OBVIOUS
<1>3. k = Head(text)[1] /\ up = Head(text)[2]
  BY <1>1, <1>2
<1>4. /\ wire = << >> /\ wire' = Codes(k, up)
      /\ held' = IF k \notin Locks THEN IF up THEN held \ {k} ELSE held \cup {k}
                 ELSE IF up THEN held
                 ELSE IF k \in held THEN held \ {k} ELSE held \cup {k}
      /\ meant' = IF dropped \/ up THEN meant ELSE meant \o Meaning(k)
      /\ UNCHANGED <<cell, p_head, p_tail, count, kb_state, code, dropped>>
  BY <1>3 DEF Type
<1>5. held' \cap ModNames = Pressed(held \cap ModNames, k, up)
  <2>1. held' = HeldAfter(held, k, up)
    BY <1>4, Zenon DEF HeldAfter
  <2> QED
    BY <2>1, HeldPressed
<1>6. ASSUME ~dropped PROVE meant' = meant \o Writes(held \cap ModNames, k, up)
  <2>1. CASE up
    <3>1. PICK s \in Seq(Syms) : s = meant
      BY DEF Types, DriverTypes
    <3>2. s \o << >> = s
      BY ConcatEmptySeq
    <3>3. Writes(held \cap ModNames, k, up) = << >>
      BY <2>1, Zenon DEF Writes
    <3> QED
      BY <1>4, <2>1, <3>1, <3>2, <3>3
  <2>2. CASE ~up
    <3>1. Writes(held \cap ModNames, k, up) = Meaning(k)
      BY <2>2, MeaningWritten, Zenon DEF Writes
    <3> QED
      BY <1>4, <1>6, <2>2, <3>1
  <2> QED
    BY <2>1, <2>2
<1> QED
  BY <1>4, <1>5, <1>6

\* Its bytes follow the ones in the buffer.
LEMMA TypeBuffered ==
    ASSUME Types, wire = << >>, NEW nx, NEW N, NEW B, Buffered(nx, N, B),
           NEW c \in Seq(Bytes), wire' = c, UNCHANGED <<cell, p_head, p_tail, count>>,
           NEW L \in Nat, L = N + Len(c),
           NEW B1, \A i \in Nat : i <= N => B1[i] = B[i],
           \A i \in Nat : ~(i <= N) => B1[i] = c[i - N]
    PROVE  Buffered(nx, L, B1)'
<1>1. PICK n \in Nat : n = count
  BY CellsFacts DEF Types, DriverTypes
<1>2. PICK m \in Nat : m = Len(c)
  OBVIOUS
<1>3. Len(wire) = 0
  OBVIOUS
<1>4. nx \in Nat \ {0} /\ N \in Nat /\ N + 1 = nx + n
  <2>1. nx \in Nat \ {0} /\ N \in Nat /\ N + 1 = nx + count + Len(wire)
    BY DEF Buffered
  <2> QED
    BY <1>1, <1>3, <2>1
<1>5. p_head = Nth(p_tail, n) /\ \A i \in 0 .. n - 1 : cell[Nth(p_tail, i)] = B[nx + i]
  BY <1>1 DEF Buffered
<1>6. L + 1 = nx + n + m
  BY <1>2, <1>4
<1>7. ASSUME NEW i \in 0 .. n - 1 PROVE cell[Nth(p_tail, i)] = B1[nx + i]
  <2>1. PICK j \in Nat : j = nx + i /\ j <= N
    BY <1>4
  <2>2. B1[j] = B[j]
    BY <2>1, Zenon
  <2> QED
    BY <1>5, <2>1, <2>2
<1>8. ASSUME NEW i \in 1 .. m PROVE c[i] = B1[nx + n + i - 1]
  <2>1. PICK j \in Nat : j = nx + n + i - 1 /\ ~(j <= N) /\ j - N = i
    BY <1>4
  <2>2. B1[j] = c[j - N]
    BY <2>1, Zenon
  <2> QED
    BY <2>1, <2>2
<1>9. PICK q \in Cells : q = p_tail
  BY DEF Types, DriverTypes
<1> QED
  BY <1>1, <1>2, <1>4, <1>5, <1>6, <1>7, <1>8 DEF Buffered

\* A key is pressed or let go while its bytes are still to be read.
LEMMA TypeKeys ==
    ASSUME Types, KeysInv, Type, UNCHANGED <<pc, current_console, tty, reader>>
    PROVE  KeysInv'
<1> SUFFICES ASSUME ~dropped'
             PROVE  \E nx, N, K, U, C, O, B, M, W : Follows(nx, N, K, U, C, O, B, M, W)'
  BY DEF KeysInv
<1>1. PICK k \in Keys : \E up \in BOOLEAN :
              /\ wire = << >> /\ wire' = Codes(k, up)
              /\ held' \cap ModNames = Pressed(held \cap ModNames, k, up)
              /\ ~dropped => meant' = meant \o Writes(held \cap ModNames, k, up)
              /\ UNCHANGED <<cell, p_head, p_tail, count, kb_state, code, dropped>>
  BY TypeFacts
<1>2. PICK up \in BOOLEAN :
              /\ wire = << >> /\ wire' = Codes(k, up)
              /\ held' \cap ModNames = Pressed(held \cap ModNames, k, up)
              /\ ~dropped => meant' = meant \o Writes(held \cap ModNames, k, up)
              /\ UNCHANGED <<cell, p_head, p_tail, count, kb_state, code, dropped>>
  BY <1>1
<1>3. ~dropped
  BY <1>2
<1>4. PICK nx, N, K, U, C, O, B, M, W : Follows(nx, N, K, U, C, O, B, M, W)
  BY <1>3 DEF KeysInv
<1>5. /\ Labelled(nx, N, K, U, C, O, B, M, W) /\ Buffered(nx, N, B)
      /\ Between(nx, N, C, O, M, W)
  BY <1>4 DEF Follows
<1>6. nx \in Nat \ {0} /\ N \in Nat /\ nx <= N + 1
  <2>1. nx \in Nat \ {0} /\ N \in Nat /\ N + 1 = nx + count + Len(wire)
    BY <1>5 DEF Buffered
  <2>2. count \in Nat /\ Len(wire) \in Nat
    BY CellsFacts DEF Types, DriverTypes
  <2> QED
    BY <2>1, <2>2
<1>7. PICK c \in Seq(Bytes) : c = Codes(k, up)
  BY CodesType
<1>8. PICK m0 : m0 = held \cap ModNames
  OBVIOUS
<1>9. PICK m1 : m1 = Pressed(m0, k, up)
  OBVIOUS
<1>10. PICK v \in Seq(Syms) : v = Writes(m0, k, up)
  BY WritesType
<1>11. PICK w \in Seq(Syms) : w = meant
  BY DEF Types, DriverTypes
<1>12. PICK w1 \in Seq(Syms) : w1 = w \o v /\ Len(w) <= Len(w1)
  <2>1. w \o v \in Seq(Syms) /\ Len(w \o v) = Len(w) + Len(v)
    BY ConcatProperties
  <2>2. PICK a \in Nat, b \in Nat : a = Len(w) /\ b = Len(v)
    BY LenType
  <2>3. a <= a + b
    OBVIOUS
  <2>4. Len(w) <= Len(w \o v)
    BY <2>1, <2>2, <2>3
  <2> QED
    BY <2>1, <2>4, Zenon
<1>13. /\ wire' = c /\ held' \cap ModNames = m1 /\ meant' = w1
       /\ UNCHANGED <<cell, p_head, p_tail, count, kb_state, code>>
  BY <1>2, <1>3, <1>7, <1>8, <1>9, <1>10, <1>11, <1>12, Zenon
<1>14. M[N + 1] = m0 /\ W[N + 1] = w /\ M[nx] = KbMods(kb_state) /\ W[nx] = tty[pc.tty].key_buf
  BY <1>5, <1>8, <1>11 DEF Between
<1>15. CASE c = << >>
  <2>1. m1 = m0 /\ v = << >>
    <3>1. k = "pause" /\ up
      BY <1>7, <1>15, CodesType
    <3> QED
      BY <1>9, <1>10, <3>1 DEF Pressed, Writes
  <2>2. w1 = w
    BY <1>12, <2>1, ConcatEmptySeq
  <2>3. wire' = wire /\ meant' = meant /\ held' \cap ModNames = held \cap ModNames
    BY <1>2, <1>8, <1>11, <1>13, <1>15, <2>1, <2>2
  <2>4. Buffered(nx, N, B)'
    BY <1>5, <1>13, <2>3 DEF Buffered
  <2>5. Between(nx, N, C, O, M, W)'
    BY <1>5, <1>13, <2>3 DEF Between
  <2>6. Follows(nx, N, K, U, C, O, B, M, W)'
    BY <1>5, <2>4, <2>5 DEF Follows, Labelled
  <2> QED
    BY <2>6, Zenon
<1>16. CASE c # << >>
  <2>1. PICK L \in Nat : L = N + Len(c) /\ N + 1 <= L
    BY <1>6, <1>16
  <2>2. PICK K1, U1, C1, O1, B1, M1, W1 :
           Added(N, L, k, up, c, m0, m1, w, w1, K, U, C, O, B, M, W, K1, U1, C1, O1, B1, M1, W1)
    BY AddedExists, Zenon
  <2>3. Labelled(nx, L, K1, U1, C1, O1, B1, M1, W1)
    <3>1. w1 = w \o Writes(m0, k, up)
      BY <1>10, <1>12, Zenon
    <3>2. m0 = M[N + 1] /\ w = W[N + 1]
      BY <1>14, Zenon
    <3>3. Grown(nx, N, L, k, up, c, m0, m1, w, w1, K, U, C, O, B, M, W, K1, U1, C1, O1, B1, M1, W1)
      BY <1>5, <1>6, <1>7, <1>9, <1>12, <1>16, <2>1, <2>2, <3>1, <3>2, Zenon DEF Grown
    <3> QED
      BY <3>3, LabelledMore, Zenon
  <2>4. Buffered(nx, L, B1)'
    <3>1. /\ \A i \in Nat : i <= N => B1[i] = B[i]
          /\ \A i \in Nat : ~(i <= N) => B1[i] = c[i - N]
      BY <2>2, Zenon DEF Added
    <3> QED
      BY <1>2, <1>5, <1>13, <2>1, <3>1, TypeBuffered
  <2>5. M1[nx] = M[nx] /\ W1[nx] = W[nx]
    <3>1. nx <= N \/ (nx = N + 1 /\ ~(nx <= N) /\ nx <= L)
      BY <1>6, <2>1
    <3>2. nx <= N => M1[nx] = M[nx] /\ W1[nx] = W[nx]
      BY <1>6, <2>2, Zenon DEF Added
    <3>3. ~(nx <= N) /\ nx <= L => M1[nx] = m0 /\ W1[nx] = w
      BY <1>6, <2>2, Zenon DEF Added
    <3> QED
      BY <1>14, <3>1, <3>2, <3>3, Zenon
  <2>6. M1[L + 1] = m1 /\ W1[L + 1] = w1
    <3>1. PICK i \in Nat : i = L + 1 /\ ~(i <= N) /\ ~(i <= L)
      BY <1>6, <2>1
    <3>2. M1[i] = m1 /\ W1[i] = w1
      BY <2>2, <3>1, Zenon DEF Added
    <3> QED
      BY <3>1, <3>2, Zenon
  <2>7. nx <= L /\ ~(nx > L)
    BY <1>6, <2>1
  <2>8. O1[nx] = Len(code) + 1 /\ \A i \in 1 .. Len(code) : code[i] = C1[nx][i]
    <3>1. CASE nx <= N
      <4>1. O1[nx] = O[nx] /\ C1[nx] = C[nx]
        BY <1>6, <2>2, <3>1, Zenon DEF Added
      <4> QED
        BY <1>5, <3>1, <4>1 DEF Between
    <3>2. CASE ~(nx <= N)
      <4>1. nx > N /\ nx - N = 1
        BY <1>6, <3>2
      <4>2. O1[nx] = nx - N
        BY <1>6, <2>2, <3>2, Zenon DEF Added
      <4>3. code = << >>
        BY <1>5, <4>1 DEF Between
      <4>4. Len(<< >>) = 0
        OBVIOUS
      <4> QED
        BY <4>1, <4>2, <4>3, <4>4
    <3> QED
      BY <3>1, <3>2
  <2>9. Between(nx, L, C1, O1, M1, W1)'
    <3>1. /\ M1[nx] = KbMods(kb_state') /\ W1[nx] = tty'[pc'.tty].key_buf
      BY <1>13, <1>14, <2>5
    <3>2. M1[L + 1] = held' \cap ModNames /\ W1[L + 1] = meant'
      BY <1>13, <2>6
    <3> QED
      BY <1>13, <2>7, <2>8, <3>1, <3>2 DEF Between
  <2>10. Follows(nx, L, K1, U1, C1, O1, B1, M1, W1)'
    BY <2>3, <2>4, <2>9 DEF Follows, Labelled
  <2> QED
    BY <2>10, Zenon
<1> QED
  BY <1>15, <1>16

-----------------------------------------------------------------------------
(* A key is taken: what is written *)

LEMMA Before == ASSUME NEW n \in Nat \ {0} PROVE n - 1 \in Nat
OBVIOUS

\* e is a, of n elements, and then b, of m.
Joined(e, a, b, n, m) ==
    Len(e) = n + m /\ \A i \in 1 .. n + m : e[i] = IF i <= n THEN a[i] ELSE b[i - n]

LEMMA ConcatElements ==
    ASSUME NEW S, NEW a \in Seq(S), NEW b \in Seq(S), NEW n \in Nat, NEW m \in Nat,
           Len(a) = n, Len(b) = m
    PROVE  a \o b \in Seq(S) /\ Joined(a \o b, a, b, n, m)
BY ConcatProperties DEF Joined

\* The rest of two sequences, one behind the other.
LEMMA TailConcat ==
    ASSUME NEW S, NEW a \in Seq(S), a # << >>, NEW b \in Seq(S)
    PROVE  a \o b # << >> /\ Tail(a \o b) = Tail(a) \o b
<1>1. PICK n \in Nat \ {0} : n = Len(a)
  OBVIOUS
<1>2. PICK m \in Nat : m = Len(b)
  OBVIOUS
<1>3. PICK e \in Seq(S) : /\ e = a \o b /\ Len(e) = n + m
                          /\ \A i \in 1 .. n + m : e[i] = IF i <= n THEN a[i] ELSE b[i - n]
  <2>1. /\ a \o b \in Seq(S) /\ Len(a \o b) = n + m
        /\ \A i \in 1 .. n + m : (a \o b)[i] = IF i <= n THEN a[i] ELSE b[i - n]
    BY <1>1, <1>2, ConcatProperties
  <2> QED
    BY <2>1, Zenon
<1>4. e # << >>
  <2>1. Len(e) # 0
    BY <1>3
  <2> QED
    BY <2>1
<1>5. PICK f \in Seq(S) : f = Tail(e) /\ Len(f) = n + m - 1 /\ \A i \in 1 .. n + m - 1 : f[i] = e[i + 1]
  <2>1. /\ Len(Tail(e)) = Len(e) - 1 /\ Tail(e) \in Seq(S)
        /\ \A i \in 1 .. Len(e) - 1 : Tail(e)[i] = e[i + 1]
    BY <1>4, TailElements, Zenon
  <2>2. PICK f \in Seq(S) : f = Tail(e)
    BY <2>1, Zenon
  <2>3. Len(e) - 1 = n + m - 1
    BY <1>3
  <2>4. Len(f) = n + m - 1 /\ \A i \in 1 .. n + m - 1 : f[i] = e[i + 1]
    BY <2>1, <2>2, <2>3
  <2> QED
    BY <2>2, <2>4, Zenon
<1>6. PICK g \in Seq(S) : g = Tail(a) /\ Len(g) = n - 1 /\ \A i \in 1 .. n - 1 : g[i] = a[i + 1]
  BY <1>1, TailElements
<1>7. PICK h \in Seq(S) : /\ h = g \o b /\ Len(h) = (n - 1) + m
                          /\ \A i \in 1 .. (n - 1) + m : h[i] = IF i <= n - 1 THEN g[i] ELSE b[i - (n - 1)]
  <2>1. /\ g \o b \in Seq(S) /\ Len(g \o b) = (n - 1) + m
        /\ \A i \in 1 .. (n - 1) + m : (g \o b)[i] = IF i <= n - 1 THEN g[i] ELSE b[i - (n - 1)]
    <3>1. PICK k \in Nat : k = n - 1
      BY <1>1, Before, Zenon
    <3>2. /\ g \o b \in Seq(S) /\ Len(g \o b) = k + m
          /\ \A i \in 1 .. k + m : (g \o b)[i] = IF i <= k THEN g[i] ELSE b[i - k]
      <4>1. g \in Seq(S) /\ Len(g) = k /\ Len(b) = m /\ k \in Nat /\ m \in Nat
        BY <1>2, <1>6, <3>1, Zenon
      <4>2. g \o b \in Seq(S) /\ Joined(g \o b, g, b, k, m)
        BY <4>1, ConcatElements
      <4> QED
        BY <4>2 DEF Joined
    <3> QED
      BY <3>1, <3>2
  <2> QED
    BY <2>1, Zenon
<1>8. ASSUME NEW i \in 1 .. n + m - 1 PROVE f[i] = h[i]
  <2>1. PICK j \in 1 .. n + m : j = i + 1
    BY <1>1, <1>2
  <2>2. f[i] = e[j]
    BY <1>5, <2>1
  <2>3. i \in 1 .. (n - 1) + m
    BY <1>1, <1>2
  <2>4. CASE j <= n
    <3>1. i \in 1 .. n - 1 /\ i <= n - 1
      BY <1>1, <2>1, <2>4
    <3>2. e[j] = a[j]
      BY <1>3, <2>4
    <3>3. h[i] = g[i] /\ g[i] = a[i + 1]
      BY <1>6, <1>7, <2>3, <3>1
    <3> QED
      BY <2>1, <2>2, <3>2, <3>3
  <2>5. CASE ~(j <= n)
    <3>1. ~(i <= n - 1) /\ j - n = i - (n - 1)
      BY <1>1, <2>1, <2>5
    <3>2. e[j] = b[j - n]
      BY <1>3, <2>5
    <3>3. h[i] = b[i - (n - 1)]
      BY <1>7, <2>3, <3>1
    <3> QED
      BY <2>2, <3>1, <3>2, <3>3
  <2> QED
    BY <2>4, <2>5
<1>9. Len(f) = Len(h)
  BY <1>1, <1>2, <1>5, <1>7
<1>10. f = h
  BY <1>5, <1>7, <1>8, <1>9, SeqEqual
<1> QED
  BY <1>3, <1>4, <1>5, <1>6, <1>7, <1>10, Zenon

\* The first key is taken: nothing else changes in what is written.
LEMMA LabelledTail ==
    ASSUME NEW nx \in Nat \ {0}, NEW N \in Nat, nx <= N + 1,
           NEW K, NEW U, NEW C, NEW O, NEW B, NEW M, NEW W,
           Labelled(nx, N, K, U, C, O, B, M, W), W[nx] # << >>,
           NEW V, \A i \in Nat : V[i] = Tail(W[i])
    PROVE  Labelled(nx, N, K, U, C, O, B, M, V) /\ W[N + 1] # << >>
<1>1. ASSUME NEW i \in nx .. N + 1
      PROVE  /\ W[i] \in Seq(Syms) /\ W[i] # << >> /\ i \in Nat /\ V[i] = Tail(W[i])
             /\ V[i] \in Seq(Syms) /\ Len(V[i]) = Len(W[i]) - 1 /\ Len(W[i]) \in Nat
  <2>1. nx \in nx .. N + 1 /\ nx <= i /\ i \in Nat
    OBVIOUS
  <2>2. PICK a \in Seq(Syms), b \in Seq(Syms) : a = W[nx] /\ b = W[i] /\ Len(a) <= Len(b)
    BY <2>1 DEF Labelled
  <2>3. b # << >>
    <3>1. Len(a) \in Nat /\ Len(b) \in Nat /\ Len(a) # 0
      BY <2>2
    <3>2. Len(b) # 0
      BY <2>2, <3>1
    <3> QED
      BY <3>2
  <2>4. Tail(b) \in Seq(Syms) /\ Len(Tail(b)) = Len(b) - 1 /\ Len(b) \in Nat
    BY <2>3, HeadTail
  <2>5. V[i] = Tail(W[i])
    BY <2>1, Zenon
  <2> QED
    BY <2>1, <2>2, <2>3, <2>4, <2>5
<1>2. /\ N + 1 \in nx .. N + 1
      /\ \A i \in nx .. N : i \in nx .. N + 1 /\ i + 1 \in nx .. N + 1
  OBVIOUS
<1>3. ASSUME NEW i \in nx .. N, O[i] # Len(C[i])
      PROVE  /\ i + 1 \in nx .. N
             /\ K[i + 1] = K[i] /\ U[i + 1] = U[i] /\ C[i + 1] = C[i] /\ O[i + 1] = O[i] + 1
             /\ M[i + 1] = M[i] /\ V[i + 1] = V[i]
  <2>1. /\ i + 1 \in nx .. N
        /\ K[i + 1] = K[i] /\ U[i + 1] = U[i] /\ C[i + 1] = C[i] /\ O[i + 1] = O[i] + 1
        /\ M[i + 1] = M[i] /\ W[i + 1] = W[i]
    BY <1>3, Zenon DEF Labelled
  <2>2. V[i] = Tail(W[i]) /\ V[i + 1] = Tail(W[i + 1])
    BY <1>1, <1>2, Zenon
  <2> QED
    BY <2>1, <2>2, Zenon
<1>4. ASSUME NEW i \in nx .. N, O[i] = Len(C[i])
      PROVE  /\ i + 1 \in nx .. N => O[i + 1] = 1
             /\ M[i + 1] = Pressed(M[i], K[i], U[i])
             /\ V[i + 1] = V[i] \o Writes(M[i], K[i], U[i])
  <2>1. /\ i + 1 \in nx .. N => O[i + 1] = 1
        /\ M[i + 1] = Pressed(M[i], K[i], U[i])
        /\ W[i + 1] = W[i] \o Writes(M[i], K[i], U[i])
    BY <1>4, Zenon DEF Labelled
  <2>2. PICK s \in Seq(Syms) : s = Writes(M[i], K[i], U[i])
    BY WritesType, Zenon
  <2>3. PICK a \in Seq(Syms) : a = W[i] /\ a # << >> /\ V[i] = Tail(a)
    BY <1>1, <1>2, Zenon
  <2>4. V[i + 1] = Tail(W[i + 1]) /\ W[i + 1] = a \o s
    BY <1>1, <1>2, <2>1, <2>2, <2>3, Zenon
  <2>5. Tail(a \o s) = Tail(a) \o s
    BY <2>3, TailConcat, Zenon
  <2> QED
    BY <2>1, <2>2, <2>3, <2>4, <2>5, Zenon
<1>5. ASSUME NEW i \in nx .. N + 1, NEW j \in nx .. N + 1, i <= j
      PROVE  Len(V[i]) <= Len(V[j])
  <2>1. Len(W[i]) <= Len(W[j])
    BY <1>5, Zenon DEF Labelled
  <2>2. PICK a \in Nat, b \in Nat : a = Len(W[i]) /\ b = Len(W[j])
    BY <1>1, Zenon
  <2>3. Len(V[i]) = a - 1 /\ Len(V[j]) = b - 1 /\ a <= b
    BY <1>1, <2>1, <2>2, Zenon
  <2>4. a - 1 <= b - 1
    BY <2>3
  <2> QED
    BY <2>3, <2>4, Zenon
<1>6. \A i \in nx .. N + 1 : V[i] \in Seq(Syms)
  BY <1>1, Zenon
<1>7. Labelled(nx, N, K, U, C, O, B, M, V)
  BY <1>3, <1>4, <1>5, <1>6, Zenon DEF Labelled
<1> QED
  BY <1>1, <1>2, <1>7, Zenon

\* tty_dev_write takes the first key of the queue, and of what was typed.
LEMMA TakeKeys ==
    ASSUME Types, ReadersInv, LineInv, KeysInv, tty_dev_write, tty[pc.tty].key_buf # << >>
    PROVE  KeysInv'
<1> SUFFICES ASSUME ~dropped'
             PROVE  \E nx, N, K, U, C, O, B, M, W : Follows(nx, N, K, U, C, O, B, M, W)'
  BY DEF KeysInv
<1>1. PICK t \in Ttys : t = pc.tty /\ pc = [at |-> "dev_write", tty |-> t]
  BY DEF Types, TaskTypes, Pcs, tty_dev_write
<1>2. TakeKey(t) /\ UNCHANGED <<wire, held, cell, p_head, p_tail, count, kb_state, code, dropped>>
  BY <1>1 DEF tty_dev_write
<1>3. tty'[t].key_buf = Tail(tty[t].key_buf) /\ pc'.tty = t
  BY <1>1, <1>2, TakeReads
<1>4. meant' = IF meant = << >> THEN meant ELSE Tail(meant)
  BY <1>2 DEF TakeKey
<1>5. PICK nx, N, K, U, C, O, B, M, W : Follows(nx, N, K, U, C, O, B, M, W)
  BY <1>2 DEF KeysInv
<1>6. /\ Labelled(nx, N, K, U, C, O, B, M, W) /\ Buffered(nx, N, B)
      /\ Between(nx, N, C, O, M, W)
  BY <1>5 DEF Follows
<1>7. nx \in Nat \ {0} /\ N \in Nat /\ nx <= N + 1
  <2>1. nx \in Nat \ {0} /\ N \in Nat /\ N + 1 = nx + count + Len(wire)
    BY <1>6 DEF Buffered
  <2>2. count \in Nat /\ Len(wire) \in Nat
    BY CellsFacts DEF Types, DriverTypes
  <2> QED
    BY <2>1, <2>2
<1>8. PICK V : \A i \in Nat : V[i] = Tail(W[i])
  <2>1. PICK V : V = [i \in Nat |-> Tail(W[i])]
    OBVIOUS
  <2>2. \A i \in Nat : V[i] = Tail(W[i])
    BY <2>1, Zenon
  <2> QED
    BY <2>2, Zenon
<1>9. W[nx] = tty[pc.tty].key_buf /\ W[N + 1] = meant
  BY <1>6 DEF Between
<1>10. Labelled(nx, N, K, U, C, O, B, M, V) /\ W[N + 1] # << >>
  BY <1>6, <1>7, <1>8, <1>9, LabelledTail
<1>11. V[nx] = tty'[pc'.tty].key_buf /\ V[N + 1] = meant'
  <2>1. V[nx] = Tail(W[nx])
    BY <1>7, <1>8, Zenon
  <2>2. N + 1 \in Nat
    BY <1>7
  <2>3. V[N + 1] = Tail(W[N + 1])
    BY <1>8, <2>2, Zenon
  <2> QED
    BY <1>1, <1>2, <1>3, <1>4, <1>9, <1>10, <2>1, <2>3
<1>12. Between(nx, N, C, O, M, V)'
  BY <1>2, <1>6, <1>11 DEF Between
<1>13. Buffered(nx, N, B)'
  BY <1>2, <1>6 DEF Buffered
<1>14. Follows(nx, N, K, U, C, O, B, M, V)'
  BY <1>10, <1>12, <1>13 DEF Follows, Labelled
<1> QED
  BY <1>14, Zenon

-----------------------------------------------------------------------------
(* Keys as they were typed, at every step *)

\* The driver, the keyboard and the keys that were typed are left alone.
KeysUnchanged ==
    UNCHANGED <<wire, held, cell, p_head, p_tail, count, kb_state, code, meant, dropped>>

\* Then nothing changes if the queue of the terminal is the same.
LEMMA SameKeys ==
    ASSUME KeysInv, KeysUnchanged, tty'[pc'.tty].key_buf = tty[pc.tty].key_buf
    PROVE  KeysInv'
<1> SUFFICES ASSUME ~dropped'
             PROVE  \E nx, N, K, U, C, O, B, M, W : Follows(nx, N, K, U, C, O, B, M, W)'
  BY DEF KeysInv
<1>1. UNCHANGED <<wire, held, cell, p_head, p_tail, count, kb_state, code, meant, dropped>>
  BY DEF KeysUnchanged
<1>2. PICK nx, N, K, U, C, O, B, M, W : Follows(nx, N, K, U, C, O, B, M, W)
  BY <1>1 DEF KeysInv
<1>3. Buffered(nx, N, B)'
  BY <1>1, <1>2 DEF Follows, Buffered
<1>4. Between(nx, N, C, O, M, W)'
  BY <1>1, <1>2 DEF Follows, Between
<1>5. Follows(nx, N, K, U, C, O, B, M, W)'
  BY <1>2, <1>3, <1>4 DEF Follows, Labelled
<1> QED
  BY <1>5, Zenon

\* All queues are empty when the task goes to another terminal.
LEMMA EmptyQueues ==
    ASSUME Types, Types', KeysInv, QueuesInv,
           pc.at = "receive" \/ tty[pc.tty].key_buf = << >>,
           \A u \in Ttys : tty'[u].key_buf = tty[u].key_buf, KeysUnchanged
    PROVE  KeysInv' /\ QueuesInv'
<1>1. \A u \in Ttys : tty[u].key_buf = << >>
  BY DEF QueuesInv
<1>2. pc.tty \in Ttys /\ pc'.tty \in Ttys
  BY DEF Types, TaskTypes, Pcs
<1>3. tty'[pc'.tty].key_buf = tty[pc.tty].key_buf
  BY <1>1, <1>2
<1>4. KeysInv'
  BY <1>3, SameKeys
<1>5. QueuesInv'
  BY <1>1, <1>2 DEF QueuesInv
<1> QED
  BY <1>4, <1>5

\* keyboard_read changes the queue of its own terminal only.
LEMMA ReadQueues ==
    ASSUME Types, QueuesInv, keyboard_read
    PROVE  QueuesInv'
<1>1. PICK t \in Ttys : t = pc.tty
  BY DEF Types, TaskTypes, Pcs
<1>2. UNCHANGED tty \/ \E q : tty' = [tty EXCEPT ![t].key_buf = q]
  <2>1. ASSUME NEW key, tty_process_key(t, key)
        PROVE  UNCHANGED tty \/ \E q : tty' = [tty EXCEPT ![t].key_buf = q]
    BY <2>1 DEF tty_process_key, tty_key_enqueue
  <2>2. ASSUME NEW g, ProcessCode(t, g)
        PROVE  UNCHANGED tty \/ \E key : tty_process_key(t, key)
    BY <2>2, Zenon DEF ProcessCode
  <2>3. UNCHANGED tty \/ \E g : ProcessCode(t, g)
    BY <1>1, Zenon DEF keyboard_read
  <2> QED
    BY <2>1, <2>2, <2>3
<1>3. \A u \in Ttys \ {t} : tty'[u] = tty[u]
  BY <1>2 DEF Types, TaskTypes
<1>4. pc.at = "keyboard_read" /\ pc'.tty = pc.tty /\ pc'.at # "receive"
  <2>1. pc \in Pcs /\ pc.at = "keyboard_read"
    BY DEF keyboard_read, Types, TaskTypes
  <2>2. ASSUME NEW g, ProcessCode(t, g)
        PROVE  pc' = pc \/ pc' = [pc EXCEPT !.at = "set_leds"]
    BY <2>2, Zenon DEF ProcessCode
  <2>3. pc' = pc \/ \E g : ProcessCode(t, g)
    BY <1>1, Zenon DEF keyboard_read
  <2>4. pc' = pc \/ pc' = [pc EXCEPT !.at = "set_leds"]
    BY <2>2, <2>3
  <2> QED
    BY <2>1, <2>4 DEF Pcs
<1> QED
  BY <1>1, <1>3, <1>4 DEF QueuesInv

\* The inductive invariant for the keys.
TypedInv == ReadInv /\ KeysInv /\ QueuesInv

\* Every step keeps it.
LEMMA NextTypedInv == TypedInv /\ [Next]_vars => TypedInv'
<1> SUFFICES ASSUME TypedInv, [Next]_vars PROVE TypedInv'
  OBVIOUS
<1>0. /\ Types /\ ReadersInv /\ LineInv /\ KeysInv /\ QueuesInv
      /\ ReadInv' /\ Types'
  BY NextReadInv DEF TypedInv, ReadInv
<1> SUFFICES KeysInv' /\ QueuesInv'
  BY <1>0 DEF TypedInv
<1>1. CASE Type /\ UNCHANGED <<pc, current_console, tty, reader>>
  BY <1>0, <1>1, TypeKeys DEF QueuesInv
<1>2. CASE keyboard_handler /\ UNCHANGED <<pc, current_console, tty, reader>>
  BY <1>0, <1>2, HandlerKeys DEF QueuesInv
<1>3. CASE keyboard_read
  BY <1>0, <1>3, ReadKeys, ReadQueues
<1>4. CASE KeyboardEmpty
  <2>1. KeysUnchanged /\ UNCHANGED tty /\ pc' = [pc EXCEPT !.at = "dev_write"]
    BY <1>4 DEF KeyboardEmpty, keyboardVars, driverVars, KeysUnchanged
  <2>2. pc'.tty = pc.tty /\ pc'.at = "dev_write"
    BY <1>0, <2>1 DEF Types, TaskTypes, Pcs
  <2>3. KeysInv'
    BY <1>0, <2>1, <2>2, SameKeys
  <2>4. QueuesInv'
    BY <1>0, <2>1, <2>2 DEF QueuesInv
  <2> QED
    BY <2>3, <2>4
<1>5. CASE tty_dev_write
  <2>1. CASE tty[pc.tty].key_buf # << >>
    <3>1. PICK t \in Ttys : t = pc.tty /\ pc = [at |-> "dev_write", tty |-> t]
      BY <1>0, <1>5 DEF Types, TaskTypes, Pcs, tty_dev_write
    <3>2. tty[t].key_buf # << >> /\ TakeKey(t)
      BY <1>5, <2>1, <3>1 DEF tty_dev_write
    <3>3. /\ \A u \in Ttys \ {t} : tty'[u] = tty[u]
          /\ pc'.tty = t /\ pc'.at \in {"dev_write", "resume"}
      BY <1>0, <3>1, <3>2, TakeReads
    <3>4. QueuesInv'
      BY <1>0, <3>1, <3>2, <3>3 DEF QueuesInv
    <3> QED
      BY <1>0, <1>5, <2>1, <3>4, TakeKeys
  <2>2. CASE tty[pc.tty].key_buf = << >>
    <3>1. KeysUnchanged /\ UNCHANGED tty
      BY <1>5, <2>2 DEF tty_dev_write, KeysUnchanged
    <3> QED
      BY <1>0, <2>2, <3>1, EmptyQueues
  <2> QED
    BY <2>1, <2>2
<1>6. CASE ReceiveHwInt \/ ReceiveOther
  <2>1. pc.at = "receive" /\ UNCHANGED <<driverVars, tty>>
    BY <1>6 DEF ReceiveHwInt, ReceiveOther, Received
  <2>2. KeysUnchanged
    BY <2>1 DEF KeysUnchanged, driverVars
  <2> QED
    BY <1>0, <2>1, <2>2, EmptyQueues
<1>7. ASSUME NEW p \in Readers, NEW n \in Counts, tty_do_read(p, n)
      PROVE  KeysInv' /\ QueuesInv'
  <2>1. pc.at = "receive" /\ UNCHANGED driverVars
    BY <1>7 DEF tty_do_read, Received
  <2>2. KeysUnchanged
    BY <2>1 DEF KeysUnchanged, driverVars
  <2>3. \A u \in Ttys : tty'[u].key_buf = tty[u].key_buf
    BY <1>0, <1>7, DoReadReads
  <2> QED
    BY <1>0, <2>1, <2>2, <2>3, EmptyQueues
<1>8. CASE UNCHANGED vars
  <2>1. KeysUnchanged /\ UNCHANGED <<tty, pc>>
    BY <1>8 DEF KeysUnchanged, vars, keyboardVars, driverVars
  <2>2. KeysInv'
    BY <1>0, <2>1, SameKeys
  <2>3. QueuesInv'
    BY <1>0, <2>1 DEF QueuesInv
  <2> QED
    BY <2>2, <2>3
<1>9. CASE set_leds
  <2>1. UNCHANGED tty /\ pc'.tty = pc.tty /\ pc'.at # "receive"
    BY <1>0, <1>9, LedsStep
  <2>2. QueuesInv'
    BY <1>0, <2>1 DEF QueuesInv
  <2>3. CASE Drop(TRUE)
    <3>1. dropped' = TRUE
      BY <1>0, <2>3 DEF Drop, Types, DriverTypes
    <3> QED
      BY <2>2, <3>1 DEF KeysInv
  <2>4. CASE UNCHANGED <<wire, meant, dropped>>
    <3>1. KeysUnchanged
      BY <1>9, <2>4 DEF set_leds, KeysUnchanged
    <3> QED
      BY <1>0, <2>1, <2>2, <3>1, SameKeys
  <2> QED
    BY <1>9, <2>3, <2>4 DEF set_leds
<1>10. CASE Resume
  <2>1. KeysUnchanged
    BY <1>10 DEF Resume, keyboardVars, driverVars, KeysUnchanged
  <2>2. pc'.tty = pc.tty /\ pc'.at # "receive" /\ pc.tty \in Ttys
    BY <1>0, <1>10 DEF Resume, Types, TaskTypes, Pcs
  <2>3. \A u \in Ttys : tty'[u].key_buf = tty[u].key_buf
    BY <1>0, <1>10, ResumeReads
  <2>4. KeysInv'
    BY <1>0, <2>1, <2>2, <2>3, SameKeys
  <2>5. QueuesInv'
    BY <1>0, <2>2, <2>3 DEF QueuesInv
  <2> QED
    BY <2>4, <2>5
<1> QED
  BY <1>1, <1>2, <1>3, <1>4, <1>5, <1>6, <1>7, <1>8, <1>9, <1>10 DEF Next, TtyTask

\* At first no byte is under way and the driver knows of Num Lock, as the
\* keyboard does.
LEMMA InitKeys == Init => KeysInv /\ QueuesInv
<1> SUFFICES ASSUME Init PROVE KeysInv /\ QueuesInv
  OBVIOUS
<1>0. Types
  BY TypesInit
<1>1. /\ wire = << >> /\ code = << >> /\ meant = << >> /\ count = 0 /\ p_head = 0 /\ p_tail = 0
      /\ held = {"num"} /\ pc.tty \in Ttys /\ \A u \in Ttys : tty[u].key_buf = << >>
  BY <1>0 DEF Init, KeyboardInit, Types, TaskTypes
<1>2. QueuesInv
  BY <1>1 DEF QueuesInv
<1>3. KbMods(kb_state) = held \cap ModNames
  <2>1. /\ kb_state.shift_l = FALSE /\ kb_state.shift_r = FALSE
        /\ kb_state.caps_lock = FALSE /\ kb_state.num_lock = TRUE
    BY DEF Init, KeyboardInit
  <2> QED
    BY <1>1, <2>1 DEF KbMods, ModNames
<1>4. PICK M : M = [i \in Nat |-> {"num"} \cap ModNames]
  OBVIOUS
<1>5. PICK W : W = [i \in Nat |-> << >>]
  OBVIOUS
<1>6. M[1] = {"num"} \cap ModNames /\ W[1] = << >>
  BY <1>4, <1>5
<1>7. << >> \in Seq(Syms) /\ Len(<< >>) = 0
  OBVIOUS
<1>8. Labelled(1, 0, W, W, W, W, W, M, W)
  <2>1. 1 .. 0 = {} /\ 0 + 1 = 1 /\ 1 .. 1 = {1}
    OBVIOUS
  <2>2. \A i \in 1 .. 0 + 1 : i = 1
    BY <2>1
  <2>3. \A i \in 1 .. 0 + 1 : W[i] = << >>
    BY <1>6, <2>2, Zenon
  <2>4. \A i \in 1 .. 0 + 1 : W[i] \in Seq(Syms)
    BY <1>7, <2>3, Zenon
  <2>5. \A i, j \in 1 .. 0 + 1 : Len(W[i]) <= Len(W[j])
    <3>1. Len(<< >>) <= Len(<< >>)
      BY <1>7
    <3> QED
      BY <2>3, <3>1, Zenon
  <2>6. \A i \in 1 .. 0 : FALSE
    BY <2>1
  <2> QED
    BY <2>4, <2>5, <2>6, Zenon DEF Labelled
<1>9. Buffered(1, 0, W)
  <2>1. Nth(0, 0) = 0
    BY NthZero, CellsFacts
  <2> QED
    BY <1>1, <1>7, <2>1 DEF Buffered
<1>10. Between(1, 0, W, W, M, W)
  <2>1. 0 + 1 = 1 /\ ~(1 <= 0)
    OBVIOUS
  <2> QED
    BY <1>1, <1>3, <1>6, <2>1 DEF Between
<1>11. Follows(1, 0, W, W, W, W, W, M, W)
  BY <1>8, <1>9, <1>10 DEF Follows
<1>12. KeysInv
  BY <1>11, Zenon DEF KeysInv
<1> QED
  BY <1>2, <1>12

\* When no byte is under way, what was typed is what the queue has.
LEMMA TypedKeys == Types /\ KeysInv /\ QueuesInv => KeysAsTyped
<1> SUFFICES ASSUME Types, KeysInv, QueuesInv, ~dropped, wire = << >>, count = 0, code = << >>
             PROVE  \E t \in Ttys : /\ tty[t].key_buf = meant
                                    /\ \A u \in Ttys \ {t} : tty[u].key_buf = << >>
  BY DEF KeysAsTyped
<1>1. PICK nx, N, K, U, C, O, B, M, W : Follows(nx, N, K, U, C, O, B, M, W)
  BY DEF KeysInv
<1>2. N + 1 = nx
  <2>1. Len(wire) = 0
    OBVIOUS
  <2>2. nx \in Nat /\ N + 1 = nx + count + Len(wire)
    BY <1>1 DEF Follows, Buffered
  <2> QED
    BY <2>1, <2>2
<1>3. tty[pc.tty].key_buf = meant
  BY <1>1, <1>2 DEF Follows, Between
<1>4. pc.tty \in Ttys
  BY DEF Types, TaskTypes, Pcs
<1> QED
  BY <1>3, <1>4 DEF QueuesInv

\* Once keyboard_read has seen all bytes, the queue of one terminal has exactly the
\* keys that were typed and are not taken yet, in their order and as the modifiers
\* stood when they were pressed, unless a byte or a key was thrown away: by a full
\* buffer or queue, by keyboard_read behind Pause or Print in the same call, or by
\* kb_ack.  For buffers and queues of every size and every text.
THEOREM KeysAlwaysAsTyped == Spec => []KeysAsTyped
<1>1. Init => TypedInv
  BY TypesInit, InitReads, InitKeys DEF TypedInv, ReadInv
<1>2. TypedInv => KeysAsTyped
  BY TypedKeys DEF TypedInv, ReadInv
<1> QED
  BY <1>1, <1>2, NextTypedInv, PTL DEF Spec
=============================================================================
