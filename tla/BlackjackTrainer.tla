---------------------------- MODULE BlackjackTrainer ----------------------------
(***************************************************************************)
(* The game that apps/bjt plays: a BlackjackTrainer with its Shoe and the  *)
(* Hands of a round, key by key and card by card.                          *)
(*                                                                         *)
(* A shuffled shoe is the bag of its cards, any of which is drawn next.    *)
(* The advice of the strategy tables is any of the moves that the tables   *)
(* hold.  Money is counted in half dollars, and bets are whole dollars.    *)
(***************************************************************************)
EXTENDS Integers, Sequences, SequencesExt, FiniteSets, FiniteSetsExt

CONSTANTS Value,       \* the faces that are in play, and their values: an ace's is 11
          Ace,         \* the face of an ace
          Decks,       \* how many cards of each face
          Reserve,     \* fewer cards than this are not played with
          FirstCash,   \* the chips that are bought
          Bets,        \* the bets that are made
          MaxHands     \* bound: no round begins after so many hands

VARIABLES shoe, used,  \* _cards and _usedCards of the Shoe
          cash,        \* _playerCash
          prevBet,     \* _playerPrevBet
          stats,       \* _numHands, _totalWinningsCorrect and _totalWinningsIncorrect
          turn,        \* where playHand() is
          dealt,       \* the cards of "dealer", "hand" and "other", the split-off hand
          bets,        \* playerBet[]
          correct,     \* playerCorrect[]
          split        \* the hand was split

tableVars == <<shoe, used, cash, prevBet, stats, turn, dealt, bets, correct, split>>

Faces == DOMAIN Value
Players == {"hand", "other"}
NoCards == [f \in Faces |-> 0]
NoHands == [who \in Players \cup {"dealer"} |-> <<>>]

Init ==
  /\ shoe = Decks /\ used = NoCards
  /\ cash = FirstCash /\ prevBet = 0
  /\ stats = [hands |-> 0, asAdvised |-> 0, otherwise |-> 0]
  /\ turn = "bet"
  /\ dealt = NoHands
  /\ bets = [who \in Players |-> 0]
  /\ correct = [who \in Players |-> TRUE]
  /\ split = FALSE

-------------------------------------------------------------------------------
(* Hand *)

Aces(hand) == SelectSeq(hand, LAMBDA f : f = Ace)

Total(hand) == FoldLeft(LAMBDA sum, f : sum + Value[f], 0, hand) - 10 * Len(Aces(hand))

Soft(hand) == Aces(hand) # <<>> /\ Total(hand) + 10 <= 21

HandValue(hand) == IF Soft(hand) THEN Total(hand) + 10 ELSE Total(hand)

IsBust(hand) == HandValue(hand) > 21

IsBlackjack(hand) == Len(hand) = 2 /\ {Value[hand[1]], Value[hand[2]]} = {10, 11}

Splittable(hand) == ~split /\ Len(hand) = 2 /\ hand[1] = hand[2]

Hittable(hand) == ~(split /\ hand[1] = Ace /\ Len(hand) = 2)

\* compare(), of a player's hand with the dealer's
Rank(hand, isDealer) ==
  IF ~isDealer /\ IsBlackjack(hand) THEN HandValue(hand) + 1
  ELSE IF IsBust(hand) THEN 0
  ELSE HandValue(hand)

Result(hand) ==
  LET mine   == Rank(hand, FALSE)
      theirs == Rank(dealt["dealer"], TRUE)
  IN  IF IsBust(hand) \/ mine < theirs THEN "lose"
      ELSE IF mine = theirs THEN "push"
      ELSE IF ~split /\ IsBlackjack(hand) THEN "blackjack"
      ELSE "win"

-------------------------------------------------------------------------------
(* Shoe *)

\* mutant: the drawn card is not kept
DrawLost(f) ==
  /\ shoe[f] > 0
  /\ shoe' = [shoe EXCEPT ![f] = @ - 1]
  /\ UNCHANGED used

\* draw(); a shoe of six decks never runs out
Draw(f) ==
  /\ shoe[f] > 0
  /\ shoe' = [shoe EXCEPT ![f] = @ - 1]
  /\ used' = [used EXCEPT ![f] = @ + 1]

Deal(who, f) == dealt' = [dealt EXCEPT ![who] = Append(@, f)]

Cards(bag) == MapThenSumSet(LAMBDA f : bag[f], Faces)

ShuffleTime == Cards(shoe) < Reserve

Shuffled == [f \in Faces |-> shoe[f] + used[f]]

-------------------------------------------------------------------------------
(* The round: playHand() *)

\* placeBet(), to a bet that it takes
PlaceBet(b) ==
  /\ turn = "bet" /\ stats.hands < MaxHands
  /\ b <= cash
  /\ cash' = cash - b /\ prevBet' = b
  /\ bets' = [bets EXCEPT !["hand"] = b]
  /\ turn' = "deal"
  /\ UNCHANGED <<shoe, used, stats, dealt, correct, split>>

\* an empty answer repeats the last bet, if there is one and it can be paid
SameBet == prevBet \in 1..cash /\ PlaceBet(prevBet)

\* two cards to the dealer, then two to the player
DealCard(f) ==
  /\ turn = "deal"
  /\ Draw(f)
  /\ IF Len(dealt["dealer"]) < 2 THEN Deal("dealer", f) ELSE Deal("hand", f)
  /\ turn' = IF Len(dealt["hand"]) = 1 THEN "hand" ELSE "deal"
  /\ UNCHANGED <<cash, prevBet, stats, bets, correct, split>>

AllowHit(hand) == HandValue(hand) < IF Soft(hand) THEN 19 ELSE 17

\* what player() returns without a key: a hand that may go on neither by a card nor a split
Stands(hand) == ~Splittable(hand) /\ (~AllowHit(hand) \/ ~Hittable(hand))

CanPay(who) == cash >= bets[who]

\* mutant: whether a double can be paid for is not looked at
CanDoubleUnpaid(who) == Len(dealt[who]) = 2

CanDouble(who) == Len(dealt[who]) = 2 /\ CanPay(who)

\* getRecommendation()
TableAdvice(who) ==
  LET hand == dealt[who]
      val  == HandValue(hand)
      Doubling == IF CanDouble(who) THEN {"double"} ELSE {}
  IN  IF Soft(hand)
      THEN IF val <= 12 THEN {"hit"} ELSE IF val >= 19 THEN {"stand"}
           ELSE {"hit"} \cup Doubling \cup IF val = 18 THEN {"stand"} ELSE {}
      ELSE IF val <= 8 THEN {"hit"} ELSE IF val >= 17 THEN {"stand"}
           ELSE {"hit"} \cup IF val <= 11 THEN Doubling ELSE {"stand"}

Advice(who) == TableAdvice(who) \cup IF Splittable(dealt[who]) THEN {"split"} ELSE {}

\* the keys that player() does not refuse with a bell
Allowed(who) ==
  {"stand"} \cup (IF AllowHit(dealt[who]) THEN {"hit"} ELSE {})
            \cup (IF CanDouble(who) THEN {"double"} ELSE {})
            \cup (IF Splittable(dealt[who]) /\ CanPay(who) THEN {"split"} ELSE {})

\* whose playerCorrect player() is given: the second, for both of the split hands
Judged == IF split THEN "other" ELSE "hand"

Judge(move, advice) ==
  correct' = [correct EXCEPT ![Judged] = @ /\ move = advice]

\* playHand() from the end of a call of player() to the next, or to the dealer:
\* player() begins by taking the play for correct
NextPlayer(who) == IF split /\ who = "hand" THEN "other" ELSE "dealer"

PlayOn(who, move, advice) ==
  /\ turn = who /\ who \in Players
  /\ ~Stands(dealt[who])
  /\ move \in Allowed(who)
  /\ advice \in Advice(who)
  /\ UNCHANGED <<prevBet, stats>>

Hit(who, advice, f) ==
  /\ PlayOn(who, "hit", advice) /\ Judge("hit", advice)
  /\ Draw(f) /\ Deal(who, f)
  /\ UNCHANGED <<cash, bets, turn, split>>

\* the split hands share a judgement, which begins anew with the second
Leaves(who, ok) ==
  /\ turn' = NextPlayer(who)
  /\ correct' = IF NextPlayer(who) = "other" THEN [correct EXCEPT !["other"] = TRUE]
                ELSE [correct EXCEPT ![Judged] = @ /\ ok]

Stand(who, advice) ==
  /\ PlayOn(who, "stand", advice)
  /\ Leaves(who, advice = "stand")
  /\ UNCHANGED <<shoe, used, cash, bets, dealt, split>>

MustStand(who) ==
  /\ turn = who /\ who \in Players
  /\ Stands(dealt[who])
  /\ Leaves(who, TRUE)
  /\ UNCHANGED <<shoe, used, cash, prevBet, stats, bets, dealt, split>>

\* mutant: the second half of the bet stays in the player's pocket
DoubleFree(who, advice, f) ==
  /\ PlayOn(who, "double", advice)
  /\ bets' = [bets EXCEPT ![who] = 2 * @]
  /\ Draw(f) /\ Deal(who, f)
  /\ Leaves(who, advice = "double")
  /\ UNCHANGED <<cash, split>>

Double(who, advice, f) ==
  /\ PlayOn(who, "double", advice)
  /\ cash' = cash - bets[who] /\ bets' = [bets EXCEPT ![who] = 2 * @]
  /\ Draw(f) /\ Deal(who, f)
  /\ Leaves(who, advice = "double")
  /\ UNCHANGED split

\* the second card goes to the other hand, and the bet is made again
Split(advice) ==
  /\ PlayOn("hand", "split", advice)
  /\ split' = TRUE
  /\ dealt' = [dealt EXCEPT !["hand"] = SubSeq(@, 1, 1), !["other"] = SubSeq(dealt["hand"], 2, 2)]
  /\ bets' = [bets EXCEPT !["other"] = bets["hand"]]
  /\ cash' = cash - bets["hand"]
  /\ correct' = [correct EXCEPT !["hand"] = @ /\ advice = "split", !["other"] = TRUE]
  /\ UNCHANGED <<shoe, used, turn>>

InPlay == IF split THEN Players ELSE {"hand"}

\* mutant: one hand's blackjack is enough
DealerSkipsOne ==
  \/ \A who \in InPlay : IsBust(dealt[who])
  \/ \E who \in InPlay : IsBlackjack(dealt[who]) /\ Value[dealt["dealer"][1]] < 10

\* the dealer does not play when that cannot matter
DealerSkips ==
  \/ \A who \in InPlay : IsBust(dealt[who])
  \/ /\ \A who \in InPlay : IsBlackjack(dealt[who])
     /\ dealt["dealer"][1] # Ace /\ Value[dealt["dealer"][1]] # 10

DealerDraw(f) ==
  /\ turn = "dealer" /\ ~DealerSkips
  /\ HandValue(dealt["dealer"]) < 17
  /\ Draw(f) /\ Deal("dealer", f)
  /\ UNCHANGED <<cash, prevBet, stats, turn, bets, correct, split>>

DealerEnds ==
  /\ turn = "dealer"
  /\ DealerSkips \/ HandValue(dealt["dealer"]) >= 17
  /\ turn' = "assess"
  /\ UNCHANGED <<shoe, used, cash, prevBet, stats, dealt, bets, correct, split>>

\* assess(): what a hand of a bet b brings back
Payout(result, b) ==
  CASE result = "win" -> 2 * b [] result = "blackjack" -> (5 * b) \div 2
    [] result = "push" -> b    [] result = "lose" -> 0

Gain(who) == Payout(Result(dealt[who]), bets[who]) - bets[who]

GainOf(ok) == MapThenSumSet(Gain, {who \in InPlay : correct[who] = ok})

\* both hands are assessed, the cards are put away, and the shoe shuffled if need be
Assess ==
  /\ turn = "assess"
  /\ cash' = cash + MapThenSumSet(LAMBDA who : Payout(Result(dealt[who]), bets[who]), InPlay)
  /\ stats' = [hands |-> stats.hands + Cardinality(InPlay),
               asAdvised |-> stats.asAdvised + GainOf(TRUE),
               otherwise |-> stats.otherwise + GainOf(FALSE)]
  /\ turn' = IF cash' = 0 THEN "quit" ELSE "bet"
  /\ IF cash' # 0 /\ ShuffleTime
     THEN shoe' = Shuffled /\ used' = NoCards
     ELSE UNCHANGED <<shoe, used>>
  /\ dealt' = NoHands /\ split' = FALSE
  /\ bets' = [who \in Players |-> 0]
  /\ correct' = [who \in Players |-> TRUE]
  /\ UNCHANGED prevBet

\* 'q' at the bet or at a move: what is on the table stays there
Quit ==
  /\ turn \in {"bet"} \cup Players
  /\ turn \in Players => ~Stands(dealt[turn])
  /\ turn' = "quit"
  /\ UNCHANGED <<shoe, used, cash, prevBet, stats, dealt, bets, correct, split>>

Next ==
  \/ \E b \in Bets : PlaceBet(b)
  \/ SameBet
  \/ \E f \in Faces : DealCard(f)
  \/ \E who \in Players :
       \/ MustStand(who)
       \/ \E advice \in Advice(who) :
            \/ Stand(who, advice)
            \/ \E f \in Faces : Hit(who, advice, f) \/ Double(who, advice, f)
  \/ \E advice \in {"hit", "stand", "double", "split"} : Split(advice)
  \/ \E f \in Faces : DealerDraw(f)
  \/ DealerEnds
  \/ Assess
  \/ Quit

Spec == Init /\ [][Next]_tableVars

-------------------------------------------------------------------------------
(* Properties *)

\* What was bought is in the player's pocket, on the table, or in the statistics of
\* printStats(): splits, doubles and blackjacks are paid for and paid out exactly,
\* and never with money that the player does not have.
MoneyConserved ==
  /\ cash >= 0
  /\ cash + MapThenSumSet(LAMBDA who : bets[who], Players) =
       FirstCash + stats.asAdvised + stats.otherwise

\* A card is in the shoe or among the used ones, which the hands' cards are.
CardsConserved ==
  \A f \in Faces :
    /\ shoe[f] + used[f] = Decks[f]
    /\ Len(SelectSeq(dealt["dealer"] \o dealt["hand"] \o dealt["other"], LAMBDA g : g = f)) <= used[f]

\* A dealer who does not play could not have changed a result.
SkippedRightly ==
  turn = "assess" /\ HandValue(dealt["dealer"]) < 17 =>
    \A who \in InPlay : IsBust(dealt[who]) \/ Rank(dealt[who], FALSE) > 21

\* What the trainer recommends can be done, a split without the money for it excepted.
AdviceCanBeFollowed ==
  turn \in Players /\ ~Stands(dealt[turn]) => Advice(turn) \subseteq Allowed(turn) \cup {"split"}

BlackjackExact == MoneyConserved /\ CardsConserved /\ SkippedRightly /\ AdviceCanBeFollowed

===============================================================================
