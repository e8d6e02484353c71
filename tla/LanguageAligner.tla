---------------------------- MODULE LanguageAligner ----------------------------
(***************************************************************************)
(* Which language a caller speaks (worker language.ts): a guess per final  *)
(* transcript, and a switch only when two guesses in a row agree.          *)
(***************************************************************************)
EXTENDS Naturals, Sequences

CONSTANTS
  Lang,         \* the languages, a sequence in the order of STOPWORDS
  MaxScore,     \* bound on the evidence in one transcript
  Unsure        \* no confident guess

ASSUME LanguageShape == Lang \in Seq({Lang[i] : i \in DOMAIN Lang}) /\ MaxScore \in Nat

VARIABLES
  current,      \* the confirmed language
  pending,      \* the language of the last guess that was another one, or Unsure
  pendingCount,
  confident     \* the last two confident guesses, for the property

languageVars == <<current, pending, pendingCount, confident>>

LanguageInit ==
  current = Lang[1] /\ pending = Unsure /\ pendingCount = 0 /\ confident = <<>>

NothingHeard == [best |-> Unsure, most |-> 0, second |-> 0]

\* Mutant: a new best score forgets the one it beats.
HearM(b, lang, s) ==
  IF s > b.most THEN [b EXCEPT !.best = lang, !.most = s]
  ELSE IF s > b.second THEN [b EXCEPT !.second = s] ELSE b

\* The next language of the one pass that keeps the best and the runner-up.
Hear(b, lang, s) ==
  IF s > b.most THEN [best |-> lang, most |-> s, second |-> b.most]
  ELSE IF s > b.second THEN [b EXCEPT !.second = s] ELSE b

\* What the pass knows after each language.
Scan(score) ==
  LET scan[i \in 0 .. Len(Lang)] ==
        IF i = 0 THEN NothingHeard ELSE Hear(scan[i - 1], Lang[i], score[Lang[i]])
  IN scan

\* detectLanguage on the scores of stopwords and characters.
Detect(score) ==
  LET b == Scan(score)[Len(Lang)]
  IN IF b.most < 2 \/ b.most < b.second + 2 THEN Unsure ELSE b.best

\* What it is to find: the one language two ahead of every other.
Winner(score) ==
  LET ahead == {i \in DOMAIN Lang : /\ score[Lang[i]] >= 2
                                    /\ \A j \in DOMAIN Lang \ {i} :
                                         score[Lang[i]] >= score[Lang[j]] + 2}
  IN IF ahead = {} THEN Unsure ELSE Lang[CHOOSE i \in ahead : TRUE]

\* Mutant: hearing the current language again does not clear the pending one.
GuessM(d) ==
  IF d = Unsure \/ d = current THEN UNCHANGED <<current, pending, pendingCount>>
  ELSE LET n == IF d = pending THEN pendingCount + 1 ELSE 1
       IN IF n < 2 THEN pending' = d /\ pendingCount' = n /\ UNCHANGED current
          ELSE current' = d /\ pending' = Unsure /\ pendingCount' = 0

\* onFinalTranscript once it has a guess.
Guess(d) ==
  IF d = Unsure THEN UNCHANGED <<current, pending, pendingCount>>
  ELSE IF d = current THEN pending' = Unsure /\ pendingCount' = 0 /\ UNCHANGED current
  ELSE LET n == IF d = pending THEN pendingCount + 1 ELSE 1
       IN IF n < 2 THEN pending' = d /\ pendingCount' = n /\ UNCHANGED current
          ELSE current' = d /\ pending' = Unsure /\ pendingCount' = 0

Note(d) ==
  confident' = IF d = Unsure THEN confident
               ELSE IF confident = <<>> THEN <<d>> ELSE <<confident[Len(confident)], d>>

\* The transcriber names the language, whatever the text; one word is no evidence.
HearNamed == \E i \in DOMAIN Lang : Guess(Lang[i]) /\ Note(Lang[i])

\* It does not: the text is looked at, three words at least.
HearText ==
  \E score \in [{Lang[i] : i \in DOMAIN Lang} -> 0 .. MaxScore] :
    Guess(Detect(score)) /\ Note(Winner(score))

LanguageNext == HearNamed \/ HearText

LanguageSpec == LanguageInit /\ [][LanguageNext]_languageVars

-----------------------------------------------------------------------------
\* The language follows the caller exactly when two confident guesses in a row agree:
\* never on one, never on two with the old language between them, and never late
\* ("Switches only after two consecutive confident detections", language.ts).
LanguageFollows ==
  [][current' = IF Len(confident') = 2 /\ confident'[1] = confident'[2]
                THEN confident'[2] ELSE current]_languageVars
=============================================================================
