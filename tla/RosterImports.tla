------------------------------ MODULE RosterImports ------------------------------
(***************************************************************************)
(* Club rosters read into the pool of players (lib/rosters): the           *)
(* difference between what is stored and what a feed or a sheet says, the  *)
(* renames nobody may decide but a person, and the import that carries a   *)
(* difference out record by record, as far as it gets.                     *)
(*                                                                         *)
(* A stored player has an id; a row has none.  Both have a code (NoCode    *)
(* for players not registered yet), a name, a club, what else is compared  *)
(* (shirt), a biography (Unknown where a feed has none) and a status.      *)
(* Names are tokens in sequence; which tokens are alike is an argument.    *)
(***************************************************************************)
EXTENDS Integers, Sequences, FiniteSets, SequencesExt

NoCode  == 0
Unknown == 0
Absent  == [id |-> 0]
LocalStatuses == {"injured", "doubtful"}
Compared == {"name", "club", "shirt"}

NameClub(row) == <<row.name, row.club>>

(* The key that makes two rows of one import the same. *)
KeyOf(row) == IF row.code # NoCode THEN <<row.code, <<>>, NoCode>> ELSE <<NoCode, row.name, row.club>>

(* Matching that trusts the code alone. *)
MatchByCode(pool, row) ==
  LET byCode == {p \in pool : row.code # NoCode /\ p.code = row.code}
  IN  IF byCode # {} THEN CHOOSE p \in byCode : TRUE ELSE Absent

(* By code first, then by name and club: also where the row has a code, for  *)
(* a code is filled in that way.                                             *)
MatchOf(pool, row) ==
  LET byCode == {p \in pool : row.code # NoCode /\ p.code = row.code}
      byName == {p \in pool : NameClub(p) = NameClub(row)}
  IN  IF byCode # {} THEN CHOOSE p \in byCode : TRUE
      ELSE IF byName # {} THEN CHOOSE p \in byName : TRUE
      ELSE Absent

CodesClash(row, match) == row.code # NoCode /\ match.code # NoCode /\ row.code # match.code

(* The stored player as this row would have him: codes and biographies are   *)
(* filled in, never blanked, and what is known locally of an active player   *)
(* stays.                                                                    *)
Updated(row, match) ==
  [match EXCEPT !.name = row.name, !.club = row.club, !.shirt = row.shirt,
                !.bio = IF row.bio = Unknown THEN @ ELSE row.bio,
                !.code = IF @ = NoCode THEN row.code ELSE @,
                !.status = IF row.status = "active" /\ @ \in LocalStatuses THEN @ ELSE row.status]
-----------------------------------------------------------------------------
(* Renames *)

Related(alike, a, b) == a = b \/ <<a, b>> \in alike \/ <<b, a>> \in alike

(* Every token of the shorter name has one of the longer to itself, the      *)
(* first free one alike, and at least one pair is equal.                     *)
LooksLikeRename(alike, stored, incoming) ==
  LET short == IF Len(stored) <= Len(incoming) THEN stored ELSE incoming
      long  == IF Len(stored) <= Len(incoming) THEN incoming ELSE stored
      cover(found, token) ==
        LET free == {at \in DOMAIN long : at \notin ToSet(found) /\ Related(alike, token, long[at])}
        IN  Append(found, IF free = {} THEN 0 ELSE CHOOSE at \in free : \A other \in free : at <= other)
      found == FoldLeft(cover, <<>>, short)
  IN  /\ short # <<>> /\ 0 \notin ToSet(found)
      /\ \E i \in DOMAIN short : short[i] = long[found[i]]

Proposal(existing, incoming, confidence) ==
  [existing |-> existing, incoming |-> incoming, confidence |-> confidence]

Paired(proposals) ==
  {proposals[i].incoming : i \in {j \in DOMAIN proposals : proposals[j].confidence = "likely"}}

OpenAt(arriving, proposals, player) ==
  SelectSeq(arriving, LAMBDA row : /\ row.code # NoCode /\ row.club = player.club
                                   /\ row \notin Paired(proposals))

(* Confident pairs first, each with an arrival of its own; a player whom two *)
(* arrivals look like claims neither.                                        *)
ConfidentPairs(alike, departing, arriving) ==
  FoldLeft(LAMBDA proposals, player :
             LET confident == SelectSeq(OpenAt(arriving, proposals, player),
                                        LAMBDA row : LooksLikeRename(alike, player.name, row.name))
             IN  IF confident = <<>> THEN proposals
                 ELSE Append(proposals, Proposal(player, confident[1],
                        IF Len(confident) = 1 THEN "likely" ELSE "candidate")),
           <<>>, departing)

(* Then a question about everybody left over at a club with arrivals nothing *)
(* explains.  The order fuse gives the alternatives is left out.             *)
AskAboutTheRest(codeless, arriving, pairs) ==
  LET ask(proposals, player) ==
        LET open == OpenAt(arriving, proposals, player)
        IN  IF open = <<>> THEN proposals
            ELSE Append(proposals, Proposal(player, open[1], "candidate"))
  IN  FoldLeft(ask, pairs, SelectSeq(codeless, LAMBDA p : \A i \in DOMAIN pairs : pairs[i].existing # p))

ProposeRenames(alike, departing, arriving) ==
  LET codeless == SelectSeq(departing, LAMBDA p : p.code = NoCode)
  IN  AskAboutTheRest(codeless, arriving, ConfidentPairs(alike, codeless, arriving))
-----------------------------------------------------------------------------
(* Differences *)

(* The first row of each key; a second is a problem. *)
OncePerKey(incoming) ==
  FoldLeft(LAMBDA rows, row : IF \E i \in DOMAIN rows : KeyOf(rows[i]) = KeyOf(row) THEN rows
                              ELSE Append(rows, row),
           <<>>, incoming)

Unseen(unread, player) == player.club \in unread.clubs \/ player.code \in unread.codes \ {NoCode}

ById(players) == SetToSortSeq(players, LAMBDA p, q : p.id < q.id)

Departing(pool, matched, unread) ==
  {p \in pool \ matched : p.status # "left" /\ ~p.awaiting /\ ~p.lock /\ ~Unseen(unread, p)}

(* A likely rename takes its arrival out of the additions and its player out *)
(* of those who leave.                                                       *)
Difference(adds, changes, departing, renames) ==
  [adds    |-> SelectSeq(adds, LAMBDA row : row \notin Paired(renames)),
   changes |-> changes,
   leaving |-> ById({p \in departing : \A i \in DOMAIN renames :
                      renames[i].existing = p => renames[i].confidence # "likely"}),
   renames |-> renames]

(* Matched rows are changes, unless the codes clash or the player is locked. *)
DiffRows(alike, pool, rows, adds, departing) ==
  LET match(row) == MatchOf(pool, row)
      changing(row) == /\ match(row) # Absent /\ ~CodesClash(row, match(row))
                       /\ Updated(row, match(row)) # match(row) /\ ~match(row).lock
      changes == FoldLeft(LAMBDA found, row : IF changing(row) THEN Append(found, [was |-> match(row), row |-> row])
                                              ELSE found, <<>>, rows)
  IN  Difference(adds, changes, departing, ProposeRenames(alike, ById(departing), adds))

DiffRosters(alike, pool, incoming, unread) ==
  LET rows == OncePerKey(incoming)
      matches == {MatchOf(pool, rows[i]) : i \in DOMAIN rows}
  IN  DiffRows(alike, pool, rows, SelectSeq(rows, LAMBDA row : MatchOf(pool, row) = Absent),
               Departing(pool, matches, unread))
-----------------------------------------------------------------------------
(* Imports *)

(* The indexes of the pool: a code is one player's, and so are a name at a   *)
(* club.                                                                     *)
Refused(pool, player) ==
  \E other \in pool : /\ other.id # player.id
                      /\ \/ player.code # NoCode /\ other.code = player.code
                         \/ NameClub(other) = NameClub(player)

Stored(pool, player) == {p \in pool : p.id # player.id} \cup {player}
Store(pool, player) == IF Refused(pool, player) THEN pool ELSE Stored(pool, player)

NewPlayer(pool, row) ==
  [id |-> 1 + FoldSet(LAMBDA p, most : IF p.id > most THEN p.id ELSE most, 0, pool),
   code |-> row.code, name |-> row.name, club |-> row.club, shirt |-> row.shirt, bio |-> row.bio,
   status |-> row.status, lock |-> FALSE, awaiting |-> FALSE]

(* The fields a change names, written over the record as it is by then. *)
Rewrite(pool, change) ==
  LET stored == CHOOSE p \in pool : p.id = change.was.id
      wanted == Updated(change.row, change.was)
  IN  [field \in DOMAIN stored |-> IF wanted[field] # change.was[field] THEN wanted[field] ELSE stored[field]]

(* The writes of an import in their order: additions, changes, departures.   *)
Writes(diff) ==
  [i \in DOMAIN diff.adds |-> [kind |-> "add", row |-> diff.adds[i]]]
    \o [i \in DOMAIN diff.changes |-> [kind |-> "change", change |-> diff.changes[i]]]
    \o [i \in DOMAIN diff.leaving |-> [kind |-> "leave", player |-> diff.leaving[i]]]

Written(pool, write) ==
  CASE write.kind = "add"    -> Store(pool, NewPlayer(pool, write.row))
    [] write.kind = "change" -> Store(pool, Rewrite(pool, write.change))
    [] write.kind = "leave"  ->
         Stored(pool, [(CHOOSE p \in pool : p.id = write.player.id) EXCEPT !.status = "left"])

(* An import that dies after some of its writes; a refused write is noted    *)
(* and the next one made.                                                    *)
PartlyImported(pool, diff, writes) == FoldLeft(Written, pool, SubSeq(Writes(diff), 1, writes))

RunRosterImport(alike, pool, incoming, unread) ==
  FoldLeft(Written, pool, Writes(DiffRosters(alike, pool, incoming, unread)))
=============================================================================
