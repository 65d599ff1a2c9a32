----------------------------- MODULE MCTerminal -----------------------------
(* Two processes read the second terminal, which is shown first; one reads  *)
(* the first.                                                               *)
EXTENDS Terminal

MCTtyOf == [p \in Readers |-> IF p = "sh0" THEN 0 ELSE 1]

Down(k) == <<k, FALSE>>
Up(k) == <<k, TRUE>>

MCTexts ==
    {<<Down("shift_r"), Down("a"), Up("shift_r"), Down("caps"), Down("a"), Down("enter")>>,
     <<Down("a"), Down("backspace"), Down("backspace"), Down("one"), Down("enter")>>,
     <<Down("end"), Down("num"), Down("up"), Down("star"), Down("pad_enter")>>,
     <<Down("pause"), Down("a"), Down("enter")>>,
     <<Down("print"), Up("print"), Down("a")>>,
     <<Down("alt_r"), Down("f1"), Up("alt_r"), Down("a"), Down("enter")>>}
=============================================================================
