------------------------------ MODULE Reputation ------------------------------
(****************************************************************************)
(* Reviews: reviews.service.ts.  A review is inserted under an index that   *)
(* admits one per booking; then the provider's rating is aggregated from    *)
(* the reviews and, in a later call, written to the user.  Changes and      *)
(* deletions of a review leave the rating alone; PATCH /users/me writes     *)
(* over that of the user who asks.                                          *)
(****************************************************************************)
EXTENDS Backend, FiniteSetsExt, Functions

(* Reviews are document ids, in the order of insertion, and bound their     *)
(* number; Deleted stands for a deleted one.  BookedProvider names the      *)
(* provider of each booking, OwnRatings what providers write over theirs.   *)
CONSTANTS Reviews, Bookings, BookedProvider, Ratings, Deleted, OwnRatings

ASSUME ReputationAssumption ==
  /\ BookedProvider \in [Bookings -> Providers]
  /\ Ratings \subseteq 1..5
  /\ Reviews \subseteq Nat /\ IsFiniteSet(Reviews)
  /\ OwnRatings \subseteq [average : Nat, total : Nat]

VARIABLES reviews, comments, reputations

reputationVars == <<reviews, comments, reputations, job, clock, faults>>

ReviewDoc == [booking : Bookings, rating : Ratings]

ASSUME NullIsNoReview == ReviewDoc \cap {None, Deleted} = {}

Posted == {i \in Reviews : reviews[i] \notin {None, Deleted}}
NotYet == {i \in Reviews : reviews[i] = None}

---------------------------------------------------------------------------
(* Slips: operators of the code below as a plausible error would have them. *)
AnyProviders(p) == Posted
SumOfRatings(ratings) == 10 * SumFunction(ratings)

---------------------------------------------------------------------------
Insert(j, b, rating) ==
  /\ Free(j)
  /\ NotYet # {}
  /\ \A i \in Posted : reviews[i].booking # b
  /\ reviews' = [reviews EXCEPT ![Min(NotYet)] = [booking |-> b, rating |-> rating]]
  /\ Become(j, [op |-> "review.aggregate", provider |-> BookedProvider[b]])
  /\ UNCHANGED <<comments, reputations, clock, faults>>

(* updateProviderRating and getProviderStats: the reviews of a provider,    *)
(* and their average to one decimal, in tenths, rounded half up.            *)
Rated(p) == {i \in Posted : BookedProvider[reviews[i].booking] = p}

Mean(ratings) ==
  LET n == Cardinality(DOMAIN ratings)
      sum == SumFunction(ratings)
  IN IF n = 0 THEN 0 ELSE (20 * sum + n) \div (2 * n)

Reputed(p) ==
  [average |-> Mean([i \in Rated(p) |-> reviews[i].rating]), total |-> Cardinality(Rated(p))]

(* Nothing is written when the last review is gone. *)
Aggregate(j) ==
  /\ job[j].op = "review.aggregate"
  /\ LET p == job[j].provider
     IN IF Rated(p) = {} THEN Finish(j)
        ELSE Become(j, [op |-> "review.rate", provider |-> p, rating |-> Reputed(p)])
  /\ UNCHANGED <<reviews, comments, reputations, clock, faults>>

Rate(j) ==
  /\ job[j].op = "review.rate"
  /\ reputations' = [reputations EXCEPT ![job[j].provider] = job[j].rating]
  /\ Finish(j)
  /\ UNCHANGED <<reviews, comments, clock, faults>>

---------------------------------------------------------------------------
(* update and delete load the review and check that its author asks.  The   *)
(* save and the deletion find nothing when another handler has deleted it.  *)
ReviewLoad(j, i, step) ==
  /\ Free(j)
  /\ i \in Posted
  /\ Become(j, step)
  /\ UNCHANGED <<reviews, comments, reputations, clock, faults>>

UpdateReview(j, i, rating) ==
  ReviewLoad(j, i, [op |-> "review.save", id |-> i, rating |-> rating])
DeleteReview(j, i) == ReviewLoad(j, i, [op |-> "review.delete", id |-> i])

SaveReview(j) ==
  /\ job[j].op = "review.save"
  /\ IF job[j].id \in Posted
     THEN reviews' = [reviews EXCEPT ![job[j].id].rating = job[j].rating]
     ELSE UNCHANGED reviews
  /\ Finish(j)
  /\ UNCHANGED <<comments, reputations, clock, faults>>

RemoveReview(j) ==
  /\ job[j].op = "review.delete"
  /\ reviews' = [reviews EXCEPT ![job[j].id] = Deleted]
  /\ Become(j, [op |-> "review.comments", id |-> job[j].id])
  /\ UNCHANGED <<comments, reputations, clock, faults>>

RemoveComments(j) ==
  /\ job[j].op = "review.comments"
  /\ comments' = comments \ {job[j].id}
  /\ Finish(j)
  /\ UNCHANGED <<reviews, reputations, clock, faults>>

(* addComment does not look whether there is such a review.  Of comments    *)
(* only the reviews they belong to are kept.                                *)
AddComment(i) ==
  /\ reviews[i] # None
  /\ comments' = comments \cup {i}
  /\ UNCHANGED <<reviews, reputations, job, clock, faults>>

(* updateMe and updateUser: whatever the body says of averageRating and     *)
(* totalReviews, in one update.                                             *)
UpdateMyRating(p, rating) ==
  /\ reputations' = [reputations EXCEPT ![p] = rating]
  /\ UNCHANGED <<reviews, comments, job, clock, faults>>

---------------------------------------------------------------------------
ReputationStep(j) ==
  \/ Aggregate(j) \/ Rate(j) \/ SaveReview(j) \/ RemoveReview(j) \/ RemoveComments(j)

ReputationCall(j) ==
  \/ \E b \in Bookings, r \in Ratings : Insert(j, b, r)
  \/ \E i \in Reviews : DeleteReview(j, i) \/ \E r \in Ratings : UpdateReview(j, i, r)

ReputationInit ==
  /\ reviews = [i \in Reviews |-> None]
  /\ comments = {}
  /\ reputations = [p \in Providers |-> [average |-> 0, total |-> 0]]

ReputationTypeOK ==
  /\ reviews \in [Reviews -> ReviewDoc \cup {None, Deleted}]
  /\ comments \subseteq Reviews
  /\ reputations \in [Providers -> [average : 0..50, total : 0..Cardinality(Reviews)] \cup OwnRatings]
==============================================================================
