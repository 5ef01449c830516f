--------------------------- MODULE MCBatchPipeline ---------------------------
(* Values for model checking BatchPipeline. *)
EXTENDS BatchPipeline

CONSTANTS e1, e2, e3, e4, c1, c2, c3, c4, c1new, u1, u2, u3, u4,
          hello, intro, claimA, claimB, um, org, person, s1, s2, s3, q1

\* Labels, and the names of a host, two guests and somebody else.
A == 1   B == 2   C == 3
Hana == 11   Gil == 12   Gus == 13   GilOnly == 14

Says(l, text, a, b) == [speaker |-> l, text |-> text, t_start |-> a, t_end |-> b]

Intros(token, name) == [t \in {hello, intro, claimA, claimB, um} |->
                          IF t = token THEN name ELSE 0]

SelfIntros == Intros(hello, Hana)
GuestIntros == Intros(intro, Gil)

PersonQids == [n \in {Gil, Gus, GilOnly, Hana} |-> IF n = Gil THEN q1 ELSE NoQid]

\* Exactly, by first name, by surname, by a part.
Spellings == [r \in 1..4 |-> CASE r = 1 -> {<<Hana, Hana>>, <<Gil, Gil>>}
                               [] r = 2 -> {<<GilOnly, Gil>>}
                               [] OTHER -> {}]

\* The first episode as the service hears it, with the labels one way or the other: out
\* of order, an empty turn, somebody below the bar, and a word without a speaker.
HostedFirst(x, y) ==
  [kind |-> "hosted",
   utterances |-> <<Says(y, <<claimA>>, 4, 12), Says(x, <<hello, intro>>, 0, 4),
                    Says(C, <<um>>, 12, 13), Says(x, <<>>, 13, 14)>>,
   words |-> <<Says(x, <<hello>>, 0, 2), Says(0, <<intro>>, 2, 4),
               Says(y, <<claimA>>, 4, 12), Says(C, <<um>>, 12, 13)>>]

\* Somebody exactly at the bar, and a sentence that is too long.
HostedSecond ==
  [kind |-> "hosted",
   utterances |-> <<Says(A, <<intro>>, 0, 2), Says(B, <<claimB, claimA>>, 2, 18),
                    Says(C, <<um>>, 18, 20)>>,
   words |-> <<Says(A, <<intro>>, 0, 2), Says(B, <<claimB>>, 2, 10),
               Says(B, <<claimA>>, 10, 18), Says(C, <<um>>, 18, 20)>>]

TurnOf(l, a, b) == [speaker |-> l, t_start |-> a, t_end |-> b]

\* Aligned segments, some without words, and overlapping turns; C below or at the bar.
Local(n) ==
  [kind |-> "local",
   turns |-> {TurnOf(A, 0, 5), TurnOf(B, 4, 18), TurnOf(C, 18, 19 + n)},
   aligned |-> <<[text |-> <<intro>>, t_start |-> 0, t_end |-> 3, words |-> <<>>],
                 [text |-> <<claimA>>, t_start |-> 3, t_end |-> 9,
                  words |-> <<Says(0, <<claimA>>, 3, 5), Says(0, <<claimA>>, 5, 9)>>],
                 [text |-> <<claimB>>, t_start |-> 9, t_end |-> 18, words |-> <<>>],
                 [text |-> <<um>>, t_start |-> 18, t_end |-> 19 + n, words |-> <<>>]>>]

Text(label) ==
  [kind |-> "text", roster |-> {Hana, Gil},
   page |-> <<Says(label, <<claimA, claimB>>, 8, 12), Says(Hana, <<intro>>, 0, 8)>>]

HearsAll == [c \in {c1, c2, c3, c4, c1new} |->
  CASE c = c1 -> {HostedFirst(A, B), HostedFirst(B, A), Local(0)}
    [] c = c2 -> {HostedSecond, Local(1)}
    [] c = c3 -> {Text(GilOnly)}
    [] c = c4 -> {Text(Gus)}
    [] OTHER  -> {HostedSecond, Local(0)}]

UrlsOf == [e \in {e1, e2, e3, e4} |->
             CASE e = e1 -> u1 [] e = e2 -> u2 [] e = e3 -> u3 [] OTHER -> u4]
AtFirst == [u \in {u1, u2, u3, u4} |->
             CASE u = u1 -> c1 [] u = u2 -> c2 [] u = u3 -> c3 [] OTHER -> c4]
Later == [AtFirst EXCEPT ![u1] = c1new]

Inputs == [e \in {e1, e2, e3, e4} |->
  [metadata   |-> IF e = e1 THEN {Gus} ELSE {},
   guestLabel |-> IF e = e2 THEN A ELSE 0,
   samples    |-> IF e = e1 THEN [l \in {A} |-> 5] ELSE [l \in {A, C} |-> IF l = A THEN 4 ELSE 9]]]

Seeds2 == <<[name |-> Hana, samples |-> <<4, 6>>], [name |-> Gus, samples |-> <<>>],
            [name |-> Hana, samples |-> <<5>>], [name |-> Gus, samples |-> <<12>>]>>

Backfill == [backend |-> "hosted", cached |-> FALSE, files |-> FALSE,
             fetches |-> TRUE, guests |-> TRUE,
             seeds |-> Seeds2, names |-> FALSE, labelsAreNames |-> FALSE,
             fallback |-> FALSE, ground |-> TRUE, resegment |-> TRUE,
             resolver |-> FALSE, batches |-> {<<e1, e2>>, <<e1, e1>>}]

Slice == [Backfill EXCEPT !.cached = TRUE, !.files = TRUE,
                          !.fetches = FALSE, !.guests = FALSE,
                          !.seeds = <<>>, !.names = TRUE, !.fallback = TRUE,
                          !.resolver = TRUE, !.batches = {<<e2, e1>>}]

LocalSetup == [Backfill EXCEPT !.backend = "local", !.cached = TRUE, !.resegment = FALSE,
                          !.batches = {<<e1, e2>>, <<e2>>}]

TextSetup == [Slice EXCEPT !.backend = "text", !.files = FALSE, !.labelsAreNames = TRUE,
                           !.batches = {<<e3, e4>>}]

SetupsAll == {Backfill, Slice, LocalSetup, TextSetup}

ItemOf(l, a, b, s, t) == [valid |-> TRUE, label |-> l, t_start |-> a, t_end |-> b,
                        subject |-> s, object |-> t]

\* Claims of the wrong speaker at the wrong time, of one who is below the bar, of nobody,
\* and one that nobody said in most episodes.
AnswerSet == {<<ItemOf(A, 0, 2, s1, claimA), ItemOf(A, 0, 2, s2, intro), ItemOf(C, 12, 13, s3, um)>>,
              <<ItemOf(B, 4, 12, s2, claimB), ItemOf(Hana, 0, 8, s1, claimB), ItemOf(99, 0, 1, s1, um)>>}

TypesOf == [s \in {s1, s2, s3} |-> IF s = s3 THEN person ELSE org]
Ranks == [s \in {s1, s2, s3} |-> CASE s = s1 -> 2 [] s = s2 -> 1 [] OTHER -> 3]
Likes == [p \in {s1, s2, s3} \X {s1, s2, s3} |-> IF p[1] = p[2] THEN 10 ELSE 8]
Lengths == [t \in {hello, intro, claimA, claimB, um} |-> IF t = claimA THEN 30 ELSE 10]
=============================================================================
