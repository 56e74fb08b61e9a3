----------------------------- MODULE MCUserData -----------------------------
EXTENDS UserData

TwoLicences == {0, 1}
\* The full list of three cups and one of two.
Counts == [l \in {0, 1} |-> <<3, 2>>[l + 1]]

\* Settings as revision 14 left them, with choices that are not the defaults.
OldChoice == [DefaultValue EXCEPT !.musicCutoff = 2, !.miiHeads = 0, !.speedometer = 3,
                                  !.ghostSaving = 1, !.randomCombo = 2]
OldSettings(choice) ==
  [raw \in RawSettings |->
     IF \E n \in DOMAIN OldRaw : OldRaw[n] = raw
     THEN choice[CHOOSE n \in DOMAIN OldRaw : OldRaw[n] = raw] ELSE 0]
NewSettings(choice) ==
  [raw \in RawSettings |->
     IF \E n \in Names : Raw[n] = raw THEN choice[CHOOSE n \in Names : Raw[n] = raw] ELSE 0]

\* Licence 0 has finished nearly all it can, licence 1 two cups.
MCWon == [l \in TwoLicences |-> [c \in Cups |-> [e \in Engines |->
            IF (l = 0 /\ c # 2 /\ e # 0) \/ (l = 1 /\ c = 0 /\ e \in {1, 2})
            THEN [rank |-> 2, trophy |-> 0] ELSE NotPlayed]]]
MCTrophies == [cell \in Cells |-> MCWon[cell \div 3][cell % 3]]
MCLicences == [l \in TwoLicences |->
  IF l = 0 THEN [score |-> 425, races |-> 598, gp |-> {}, online |-> {0}]
  ELSE [score |-> 10, races |-> 0, gp |-> {}, online |-> {}]]

Current == [main |-> 13, settingsVersion |-> 15, trophyVersion |-> 1, licenceVersion |-> 2,
            settings |-> [l \in TwoLicences |-> NewSettings(OldChoice)],
            licences |-> MCLicences, trophies |-> MCTrophies,
            chosen |-> [l \in TwoLicences |-> OldChoice], won |-> MCWon]
Older == [Current EXCEPT !.settingsVersion = 14,
                         !.settings = [l \in TwoLicences |-> OldSettings(OldChoice)]]
\* Of a release to come, and no file at all.
Newer == [Current EXCEPT !.settingsVersion = 16, !.licenceVersion = 3]
MCStoredFiles == {Current, Older, Newer, Unread(Current)}

MCChanges == {<<"musicCutoff", 1>>, <<"speedometer", 0>>}
MCGPResults == {[engine |-> 0, rank |-> 3, trophy |-> 2], [engine |-> 1, rank |-> 0, trophy |-> 1],
                [engine |-> 3, rank |-> 6, trophy |-> 0]}
\* A duel, a good race, a bad one, and one finished after 5/4 of the leader's time.
Good == [players |-> 12, leader |-> 8000, frames |-> 8000, first |-> 8000, bonus |-> 100,
         penalty |-> 0]
Bad == [Good EXCEPT !.frames = 9900, !.first = 0, !.bonus = 0, !.penalty = 300]
Late == [Good EXCEPT !.players = 5, !.frames = 10001, !.first = 0, !.bonus = 0]
MCOnlineRaces == {[Good EXCEPT !.players = 2], Good, Bad, Late}

\* The score is the weighted average of the old one and the race's, as long
\* as the sum is not negative; a negative sum becomes a huge score.
ASSUME ScoreIsAverage ==
  \A old \in {0, 1, 100, 400, 999, 70000}, p \in {3, 5, 8, 12}, frames \in {8000, 8800, 10000},
     penalty \in {0, 90, 1000} :
    LET r == [Good EXCEPT !.players = p, !.frames = frames, !.penalty = penalty]
        sum == (36 - Weight(p)) * old + Weight(p) * Score(r)
    IN  IF sum >= 0 THEN Averaged(old, r) = sum \div 36
        ELSE Averaged(old, r) > 119000000

\* A player who finishes later than 5/4 of the leader's time gets the best
\* score, whatever the penalties: the difference is unsigned.
ASSUME LateScoresBest == Score([Late EXCEPT !.penalty = 2000]) = 1000
=============================================================================
