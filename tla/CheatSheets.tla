------------------------------ MODULE CheatSheets ------------------------------
(***************************************************************************)
(* A member's cheat sheet, which autodraft picks from: the list pasted and *)
(* matched to the pool (sheets/match.ts), and the sheet edited by hand     *)
(* (sheets/reorder.ts), once in the browser and once on the server.        *)
(*                                                                         *)
(* A sheet is a ranking and its tier breaks, each the count of players     *)
(* above it.  A pasted line carries what the search found for its name:    *)
(* the players of exactly that name, the close ones best first, and        *)
(* whether the best is clear of the next.                                  *)
(***************************************************************************)
EXTENDS Integers, Sequences, FiniteSets, SequencesExt, Listings

Unmatched == 0
MaxCandidates == 3

NewSheet(ranking, tiers) == [ranking |-> ranking, tiers |-> tiers]
Ranked(sheet) == ToSet(sheet.ranking)
RankOf(sheet, player) == CHOOSE r \in DOMAIN sheet.ranking : sheet.ranking[r] = player
Clamped(n, least, most) == IF n < least THEN least ELSE IF n > most THEN most ELSE n

(* A break is kept strictly inside the sheet: tidyBreaks, and asBreaks of    *)
(* what is read back.                                                        *)
TidyBreaks(tiers, size) == {brk \in tiers : brk > 0 /\ brk < size}

TierOfRank(rank, tiers) == 1 + Cardinality({brk \in tiers : rank > brk})

-----------------------------------------------------------------------------
(* Editing by hand *)

MoveTo(sheet, player, toRank) ==
  IF player \notin Ranked(sheet) \/ toRank \notin DOMAIN sheet.ranking THEN sheet
  ELSE NewSheet(InsertAt(RemoveAt(sheet.ranking, RankOf(sheet, player)), toRank, player), sheet.tiers)

Nudge(sheet, player, by) ==
  IF player \notin Ranked(sheet) THEN sheet
  ELSE MoveTo(sheet, player, Clamped(RankOf(sheet, player) + by, 1, Len(sheet.ranking)))

(* Breaks below the removed rank left where they were. *)
RemoveKeepingBreaks(sheet, player) ==
  IF player \notin Ranked(sheet) THEN sheet
  ELSE NewSheet(RemoveAt(sheet.ranking, RankOf(sheet, player)),
                TidyBreaks(sheet.tiers, Len(sheet.ranking) - 1))

RemoveFromSheet(sheet, player) ==
  IF player \notin Ranked(sheet) THEN sheet
  ELSE LET rank == RankOf(sheet, player)
       IN  NewSheet(RemoveAt(sheet.ranking, rank),
                    TidyBreaks({IF brk >= rank THEN brk - 1 ELSE brk : brk \in sheet.tiers},
                               Len(sheet.ranking) - 1))

PutBack(sheet, player, atRank) ==
  IF player \in Ranked(sheet) THEN sheet
  ELSE LET rank == Clamped(atRank, 1, Len(sheet.ranking) + 1)
       IN  NewSheet(InsertAt(sheet.ranking, rank, player),
                    TidyBreaks({IF brk >= rank THEN brk + 1 ELSE brk : brk \in sheet.tiers},
                               Len(sheet.ranking) + 1))

ToggleBreak(sheet, atRank) ==
  LET brk == atRank - 1
  IN  IF brk <= 0 \/ brk >= Len(sheet.ranking) THEN sheet
      ELSE NewSheet(sheet.ranking,
                    TidyBreaks(IF brk \in sheet.tiers THEN sheet.tiers \ {brk}
                               ELSE sheet.tiers \cup {brk}, Len(sheet.ranking)))

ApplyOperation(sheet, operation) ==
  CASE operation.kind = "move"   -> MoveTo(sheet, operation.player, operation.at)
    [] operation.kind = "nudge"  -> Nudge(sheet, operation.player, operation.at)
    [] operation.kind = "remove" -> RemoveFromSheet(sheet, operation.player)
    [] operation.kind = "break"  -> ToggleBreak(sheet, operation.at)
    [] operation.kind = "insert" -> PutBack(sheet, operation.player, operation.at)

-----------------------------------------------------------------------------
(* Pasting a list *)

Candidates(line) ==
  IF line.exact # {} THEN Ascending(line.exact)
  ELSE SubSeq(line.hits, 1, IF Len(line.hits) < MaxCandidates THEN Len(line.hits) ELSE MaxCandidates)

Decisive(line) ==
  IF line.exact # {} THEN Cardinality(line.exact) = 1
  ELSE Len(line.hits) = 1 \/ (line.hits # <<>> /\ line.clear)

Entry(line, status, player, candidates) ==
  [tier |-> line.tier, status |-> status, player |-> player, candidates |-> candidates]

(* The players the entries so far have claimed outright. *)
Claimed(entries) == {entries[i].player : i \in DOMAIN entries} \ {Unmatched}

MatchLine(claimed, line) ==
  LET found == Candidates(line)
  IN  IF found = <<>> THEN Entry(line, "unmatched", Unmatched, <<>>)
      ELSE IF ~Decisive(line)
        THEN Entry(line, "ambiguous", Unmatched, SelectSeq(found, LAMBDA p : p \notin claimed))
      ELSE IF found[1] \in claimed THEN Entry(line, "duplicate", Unmatched, <<found[1]>>)
      ELSE Entry(line, "matched", found[1], <<>>)

MatchSheet(lines) ==
  FoldLeft(LAMBDA entries, line : Append(entries, MatchLine(Claimed(entries), line)), <<>>, lines)

(* What a person answered for a line wins, Unmatched meaning to leave it out. *)
ChosenFor(entries, choices, i) == IF i \in DOMAIN choices THEN choices[i] ELSE entries[i].player

Resolution == [ranking |-> <<>>, tiers |-> {}, tier |-> Unmatched]

(* A break at every change of the column, whether or not the line survives. *)
ResolveEveryLine(entries, choices) ==
  LET step(sheet, i) ==
        LET player == ChosenFor(entries, choices, i)
            breaks == IF sheet.tier # Unmatched /\ entries[i].tier # sheet.tier
                      THEN sheet.tiers \cup {Len(sheet.ranking)} ELSE sheet.tiers
        IN  IF player = Unmatched \/ player \in ToSet(sheet.ranking)
            THEN [sheet EXCEPT !.tiers = breaks, !.tier = entries[i].tier]
            ELSE [ranking |-> Append(sheet.ranking, player), tiers |-> breaks, tier |-> entries[i].tier]
      resolved == FoldLeft(step, Resolution, [i \in DOMAIN entries |-> i])
  IN  NewSheet(resolved.ranking, resolved.tiers)

ResolveLine(entries, choices, sheet, i) ==
  LET player == ChosenFor(entries, choices, i)
  IN  IF player = Unmatched \/ player \in ToSet(sheet.ranking) THEN sheet
      ELSE [ranking |-> Append(sheet.ranking, player),
            tiers |-> IF sheet.tier # Unmatched /\ entries[i].tier # sheet.tier
                      THEN sheet.tiers \cup {Len(sheet.ranking)} ELSE sheet.tiers,
            tier |-> entries[i].tier]

ResolveSheet(entries, choices) ==
  LET resolved == FoldLeft(LAMBDA sheet, i : ResolveLine(entries, choices, sheet, i),
                           Resolution, [i \in DOMAIN entries |-> i])
  IN  NewSheet(resolved.ranking, resolved.tiers)

(* The rank the confirm step shows at each line, 0 where it shows none. *)
PlanRanks(entries, choices) ==
  LET before(i) == {ChosenFor(entries, choices, j) : j \in 1..i - 1} \ {Unmatched}
      shown(i) == ChosenFor(entries, choices, i) \notin before(i) \cup {Unmatched}
  IN  [i \in DOMAIN entries |-> IF shown(i) THEN Cardinality(before(i)) + 1 ELSE 0]
=============================================================================
