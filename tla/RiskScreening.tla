---------------------------- MODULE RiskScreening ----------------------------
(***************************************************************************)
(* RiskScreenerTool: the explainable risk score the officer plays with.    *)
(* The controls are one record, the result an effect of the last render    *)
(* that changed one of its dependencies.  Beside it, the Python engine the *)
(* tool was ported from, as the reference.                                 *)
(*                                                                         *)
(* Scores are exact fractions: rates are percentages, months, people and   *)
(* units of Rp 100,000 are integers.                                       *)
(***************************************************************************)
EXTENDS Integers, SequencesExt, FiniteSetsExt

CONSTANT MaxEdits   \* bound on the edits since a preset was loaded

ASSUME ScreeningBound == MaxEdits \in Nat

VARIABLE tool   \* [cand, result, edits]; while the tab is closed, as it will open

Flag(jenis, verified) == [jenis |-> jenis, verified |-> verified]

FlagsOf(name) ==
    CASE name = "x" -> <<Flag("Tunggakan tersembunyi", TRUE)>>
      [] name = "y" -> <<Flag("Berita negatif keuangan", FALSE)>>
      [] OTHER -> <<>>

Preset(name) ==
    CASE name = "sri" ->
           [consent |-> TRUE, simpanan |-> 98, cicilan |-> 97, tenure |-> 30, hadir |-> 95,
            income |-> 35, debt |-> 7, stability |-> "tetap", verified |-> TRUE,
            vouch |-> "ya", reputation |-> "baik", know |-> 7, size |-> 8, flags |-> FlagsOf(name)]
      [] name = "x" ->
           [consent |-> TRUE, simpanan |-> 90, cicilan |-> -1, tenure |-> 6, hadir |-> 80,
            income |-> 40, debt |-> 18, stability |-> "musiman", verified |-> FALSE,
            vouch |-> "ya", reputation |-> "baik", know |-> 6, size |-> 8, flags |-> FlagsOf(name)]
      [] name = "y" ->
           [consent |-> TRUE, simpanan |-> 85, cicilan |-> 90, tenure |-> 18, hadir |-> 70,
            income |-> 30, debt |-> 9, stability |-> "tetap", verified |-> TRUE,
            vouch |-> "ragu", reputation |-> "cukup", know |-> 4, size |-> 8, flags |-> FlagsOf(name)]
      [] name = "blank" ->
           [consent |-> TRUE, simpanan |-> 50, cicilan |-> -1, tenure |-> 0, hadir |-> 50,
            income |-> 30, debt |-> 9, stability |-> "tidak_tetap", verified |-> FALSE,
            vouch |-> "ragu", reputation |-> "cukup", know |-> 0, size |-> 8, flags |-> FlagsOf(name)]

\* What each control can be set to: the ends, and values around a threshold.
Controls ==
    [simpanan |-> {0, 60, 100}, cicilan |-> {-1, 0, 100}, tenure |-> {0, 24},
     hadir |-> {0, 100}, income |-> {0, 10}, debt |-> {0, 5, 18},
     stability |-> {"tetap", "musiman", "tidak_tetap"}, verified |-> BOOLEAN,
     vouch |-> {"ya", "ragu", "tidak"}, reputation |-> {"baik", "cukup", "kurang"},
     know |-> {0, 9}, size |-> {0, 5}]

Deduction(jenis) ==
    CASE jenis = "Tunggakan tersembunyi" -> 25
      [] jenis = "Ketidaksesuaian data" -> 12
      [] jenis = "Catatan hukum keuangan" -> 20
      [] jenis = "Berita negatif keuangan" -> 10

Jenis == {"Tunggakan tersembunyi", "Ketidaksesuaian data", "Catatan hukum keuangan",
          "Berita negatif keuangan"}

----------------------------------------------------------------------------
(* The score, in hundredths of a point over the denominator Den(c). *)

Clip(x, hi) == Max({0, Min({hi, x})})

Income(c) == IF c.income > 0 THEN c.income ELSE 1
Size(c) == Max({c.size, 1})
Den(c) == Income(c) * Size(c)

\* Mutant: who has no history gets half of its points.
Pilar1Neutral(c) == 18 * Clip(c.simpanan, 100)
             + (IF c.cicilan >= 0 THEN 15 * Clip(c.cicilan, 100) ELSE 750)
             + 25 * Clip(c.tenure, 24) + 6 * Clip(c.hadir, 100)
Pilar1(c) == 18 * Clip(c.simpanan, 100)
             + (IF c.cicilan >= 0 THEN 15 * Clip(c.cicilan, 100) ELSE 0)
             + 25 * Clip(c.tenure, 24) + 6 * Clip(c.hadir, 100)

\* (0.70 - debt / income) / 0.40, clipped, of 18 points; times Income(c).
Dsr(c) == IF c.income > 0 THEN Clip(450 * (7 * c.income - 10 * c.debt), 1800 * c.income) ELSE 0
Pilar2(c) == 100 * ((CASE c.stability = "tetap" -> 7
                       [] c.stability = "musiman" -> 4
                       [] c.stability = "tidak_tetap" -> 2)
                    + IF c.verified THEN 5 ELSE 0)

\* times Size(c)
Kenal(c) == Clip(800 * c.know, 800 * Size(c))
Pilar3(c) == 100 * ((CASE c.vouch = "ya" -> 10 [] c.vouch = "ragu" -> 4 [] c.vouch = "tidak" -> 0)
                    + (CASE c.reputation = "baik" -> 7
                         [] c.reputation = "cukup" -> 4
                         [] c.reputation = "kurang" -> 1))

Verified(c) == {i \in DOMAIN c.flags : c.flags[i].verified}

OfKind(c, which, jenis) == {i \in which : c.flags[i].jenis = jenis}

\* What the flags among which deduct, kind by kind.
Deducted(c, which) ==
    LET all(jenis) == Deduction(jenis) * Cardinality(OfKind(c, which, jenis))
    IN 100 * (all("Tunggakan tersembunyi") + all("Ketidaksesuaian data")
              + all("Catatan hukum keuangan") + all("Berita negatif keuangan"))

\* Mutant: an adverse flag counts before it is verified.
PenaltyOfAll(c) == Deducted(c, DOMAIN c.flags)
Penalty(c) == Deducted(c, Verified(c))

\* base - penalty, times 100 * Den(c)
Points(c, kenal) ==
    Den(c) * (Pilar1(c) + Pilar2(c) + Pilar3(c) - Penalty(c))
    + Size(c) * Dsr(c) + Income(c) * kenal

\* Math.round: halves go up.
HalfUp(num, den) == (2 * num + den) \div (2 * den)
\* round of Python: halves go to the even neighbour.
HalfEven(num, den) ==
    LET up == HalfUp(num, den) IN
    IF (2 * num + den) % (2 * den) = 0 /\ up % 2 = 1 THEN up - 1 ELSE up

Clipped(c, kenal) == Clip(Points(c, kenal), 10000 * Den(c))

Serious(c) == \E i \in Verified(c) : Deduction(c.flags[i].jenis) >= 20

Band(c, score) ==
    IF Serious(c) \/ score < 50 THEN "MERAH"
    ELSE IF c.flags # <<>> \/ score < 70 THEN "KUNING"
    ELSE "HIJAU"

\* How much of the data is there, in percent.
Confidence(c) ==
    LET given == 3 + Cardinality({i \in 1..4 : <<c.cicilan >= 0, c.tenure > 0, c.income > 0,
                                                 c.verified>>[i]})
    IN HalfUp(100 * given, 7)

Analysis(c) ==
    IF ~c.consent THEN [score |-> 0, band |-> "DITOLAK", confidence |-> 0]
    ELSE LET score == HalfUp(Clipped(c, Kenal(c)), 100 * Den(c)) IN
         [score |-> score, band |-> Band(c, score), confidence |-> Confidence(c)]

\* The engine gives nothing for a group of nobody, and rounds its own way.
EngineKenal(c) == IF c.size > 0 THEN Kenal(c) ELSE 0
EngineScore(c) == HalfEven(Clipped(c, EngineKenal(c)), 100 * Den(c))

----------------------------------------------------------------------------
(* The tab *)

\* Mutant: the flags are missing from the effect's dependencies.
NoFlagDependency == DOMAIN Controls \cup {"consent"}
Dependencies == DOMAIN Controls \cup {"consent", "flags"}

\* A render with new controls: the effect runs if a dependency has changed.
Render(c, edits) ==
    tool' = [cand |-> c, edits |-> edits,
             result |-> IF \E field \in Dependencies : c[field] # tool.cand[field]
                        THEN Analysis(c) ELSE tool.result]

Mounted(name) == [cand |-> Preset(name), result |-> Analysis(Preset(name)), edits |-> 0]

LoadPreset(name) == Render(Preset(name), 0)

Edit(c) == tool.edits < MaxEdits /\ Render(c, tool.edits + 1)

SetConsent == Edit([tool.cand EXCEPT !.consent = ~@])

SetControl(field, value) ==
    /\ value # tool.cand[field]
    /\ Edit([tool.cand EXCEPT ![field] = value])

AddFlag ==
    Edit([tool.cand EXCEPT !.flags = Append(@, Flag("Berita negatif keuangan", FALSE))])

RemoveFlag(i) == Edit([tool.cand EXCEPT !.flags = RemoveAt(@, i)])

UpdateFlag(i, jenis, verified) ==
    /\ Flag(jenis, verified) # tool.cand.flags[i]
    /\ jenis = tool.cand.flags[i].jenis \/ verified = tool.cand.flags[i].verified
    /\ Edit([tool.cand EXCEPT !.flags[i] = Flag(jenis, verified)])

ScreenClick ==
    \/ \E name \in {"sri", "x", "y", "blank"} : LoadPreset(name)
    \/ SetConsent \/ AddFlag
    \/ \E field \in DOMAIN Controls : \E value \in Controls[field] : SetControl(field, value)
    \/ \E i \in DOMAIN tool.cand.flags : \/ RemoveFlag(i)
                                         \/ \E jenis \in Jenis, verified \in BOOLEAN :
                                                UpdateFlag(i, jenis, verified)

----------------------------------------------------------------------------
(* Properties *)

\* The score on screen is the engine's for the controls on screen, whatever was
\* changed in which order; a group of nobody, which the engine leaves out, can
\* only score higher.
ToolAgreesWithEngine ==
    LET c == tool.cand IN
    c.consent =>
        /\ c.size > 0 => /\ tool.result.band = Band(c, EngineScore(c))
                         /\ tool.result.score - EngineScore(c) \in {0, 1}
        /\ tool.result.score >= EngineScore(c)

\* A flag that is not verified never costs a point and never makes a candidate
\* red, and keeps it from being green.
UnverifiedOnlyHolds ==
    LET c == tool.cand IN
    \A i \in DOMAIN c.flags \ Verified(c) :
        LET without == Analysis([c EXCEPT !.flags = RemoveAt(@, i)]) IN
        /\ tool.result.score = without.score
        /\ tool.result.band = "MERAH" => without.band = "MERAH"
        /\ tool.result.band # "HIJAU"

\* What speaks for the candidate, and only that, has got better or stayed.
Better(c, d) ==
    /\ c.consent /\ d.consent
    /\ \A field \in {"simpanan", "cicilan", "tenure", "hadir", "income", "know"} :
           d[field] >= c[field]
    /\ d.debt <= c.debt /\ d.size = c.size
    /\ \A field \in {"stability", "verified", "vouch", "reputation"} : d[field] = c[field]
    /\ d.flags = c.flags \/ d.flags = <<>>

Rank(band) == CASE band = "MERAH" -> 0 [] band = "KUNING" -> 1 [] band = "HIJAU" -> 2

\* A better record, a smaller debt or a higher income never worsens the band.
BetterNeverWorsens ==
    [][Better(tool.cand, tool'.cand) => Rank(tool'.result.band) >= Rank(tool.result.band)]_tool
============================================================================
