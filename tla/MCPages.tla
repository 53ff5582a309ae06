------------------------------ MODULE MCPages ------------------------------
(***************************************************************************)
(* The pages of the two web clients that wait for something the server     *)
(* does: a browser shows one of them, and each is a module of its own.     *)
(***************************************************************************)
EXTENDS Naturals, FiniteSets

CONSTANTS MaxChallenges, MaxLoads,                   \* GenerationScreen, DuelScreens
          MaxJobs, MaxPolls, PollLimit,              \* GenerateDialogs
          Challenges, MaxPatches,                    \* TopicDesk
          Awards, MaxViews                           \* Rankings

ASSUME PagesAssumption ==
    /\ {MaxChallenges, MaxLoads, MaxJobs, MaxPolls, PollLimit, MaxPatches, MaxViews}
          \subseteq Nat
    /\ MaxViews > 0   \* of the page itself
    /\ \A numbers \in {Challenges, Awards} : numbers \subseteq Nat

VARIABLES screen, ui, net, srv
page == <<ui, net, srv>>
vars == <<screen, ui, net, srv>>

Intro == INSTANCE GenerationScreen
Duel == INSTANCE DuelScreens
Dialog == INSTANCE GenerateDialogs
Desk == INSTANCE TopicDesk
Rank == INSTANCE Rankings

Init ==
    \/ screen = "intro" /\ Intro!Init
    \/ screen = "duel" /\ Duel!Init
    \/ screen = "dialog" /\ Dialog!Init
    \/ screen = "desk" /\ Desk!Init
    \/ screen = "rank" /\ Rank!Init

Next ==
    /\ \/ screen = "intro" /\ Intro!Next
       \/ screen = "duel" /\ Duel!Next
       \/ screen = "dialog" /\ Dialog!Next
       \/ screen = "desk" /\ Desk!Next
       \/ screen = "rank" /\ Rank!Next
    /\ UNCHANGED screen

-----------------------------------------------------------------------------
(* Fairness: of the server and its workers, of the browser's timers and of  *)
(* the network, never of what a user does.                                  *)

Jobs == 1 .. MaxChallenges \cup 1 .. MaxJobs \cup Challenges

\* Workers end every job that waits: once, and nothing else is promised.
Workers(j) ==
    \/ screen = "intro" /\ j \in Intro!Id /\ srv.status[j] = "PENDING" /\ Intro!JobEnds(j)
    \/ screen = "dialog" /\ j \in Dialog!Job /\ srv.status[j] = "PENDING" /\ Dialog!JobEnds(j)
    \/ screen = "desk" /\ j \in Challenges /\ srv[j] = "PENDING" /\ Desk!JobEnds(j)

\* Requests are served.
Serving ==
    \/ screen = "intro" /\ Intro!Server
    \/ screen = "dialog" /\ Dialog!Answers
    \/ screen = "desk" /\ Desk!ServeLoad
    \/ screen = "rank" /\ \E v \in net : Rank!Answer(v)

\* Answers and errors arrive.
Arriving ==
    \/ screen = "intro" /\ Intro!Browser
    \/ screen = "dialog" /\ \E p \in net.polls : Dialog!PollEnds(p)
    \/ screen = "desk" /\ (Desk!Loaded \/ \E c \in Challenges : Desk!PollAgain(c))

\* Timers fire.
Firing ==
    \/ screen = "duel" /\ Duel!Tick
    \/ screen = "dialog" /\ \E j \in 1 .. MaxJobs : Dialog!Tick(j)

Closing == screen = "dialog" /\ \E j \in 1 .. MaxJobs : Dialog!CloseWhenReady(j)

\* Not every poll is lost, nor cut off by a load: again and again the timer of
\* one fires, ...
Asking == screen = "desk" /\ \E c \in Challenges : Desk!Tick(c)

\* ... it is served, ...
Polling ==
    \/ screen = "intro" /\ Intro!ServePoll
    \/ screen = "duel" /\ \E load \in Duel!Latest : Duel!ServeLoad(load)
    \/ screen = "desk" /\ \E c \in Challenges : Desk!ServePoll(c)

\* ... and its answer arrives, before the next one is sent.
Answering ==
    \/ screen = "intro" /\ Intro!Polled
    \/ screen = "duel" /\ \E load \in Duel!Latest : Duel!Loaded(load)
    \/ screen = "desk" /\ \E c \in Challenges : Desk!PollChanged(c)

\* What is cached expires.
Expiring(p) == screen = "rank" /\ Rank!Expire(p)

Fairness ==
    /\ \A p \in Rank!Periods : WF_page(Expiring(p))
    /\ \A j \in Jobs : WF_page(Workers(j))
    /\ WF_page(Serving) /\ WF_page(Arriving)
    /\ WF_page(Firing) /\ WF_page(Closing)
    /\ SF_page(Asking) /\ SF_page(Polling) /\ SF_page(Answering)

Spec == Init /\ [][Next]_vars /\ Fairness

-----------------------------------------------------------------------------
(* Properties. *)

\* Each page's state, its requests and what is stored keep their types.
TypeOK ==
    CASE screen = "intro" -> Intro!TypeOK
      [] screen = "duel" -> Duel!TypeOK
      [] screen = "dialog" -> Dialog!TypeOK
      [] screen = "desk" -> Desk!TypeOK
      [] screen = "rank" -> Rank!TypeOK

\* Somebody who sees the generation going on does not wait for ever, unless
\* the challenge is archived at some moment of the wait: a page that meets
\* ARCHIVED in every poll goes on polling (ChallengeIntroPage.jsx, poll).
GeneratingEnds ==
    (screen = "intro" /\ Intro!SeesGenerating)
        ~> (screen = "intro" => ~Intro!SeesGenerating \/ Intro!Archived)

\* The page of a duel never shows an earlier status than it has shown, though
\* the answers to its loads may overtake each other (useApiData's seq).
ShownNeverGoesBack == [][screen = "duel" => Duel!ShownMovesOn]_vars

\* Somebody who watches a duel that is over is shown so, unless the page is
\* left or its load fails (the interval of DuelDetailPage.jsx).
OutcomeIsShown ==
    (screen = "duel" /\ Duel!WatchesEnded) ~> (screen = "duel" => Duel!OutcomeShown)

\* A dialog that waits is ended by the outcome of the job it asked for and not
\* by an earlier one's, unless a poll was answered after another poll had
\* settled that job: nothing tells the two apart (handleTriggerAIGeneration).
OutcomeIsOfTheJob == screen = "dialog" => Dialog!OutcomeIsOfTheJob

\* A dialog that waits for its job does not wait for ever, on any of the three
\* pages of the administration client, unless the challenge is archived at some
\* moment of the wait: a poll that is answered ARCHIVED neither ends it nor
\* counts towards maxAttempts (the intervals of handleTriggerAIGeneration).
WaitingEnds ==
    (screen = "dialog" /\ ui.generating)
        ~> (screen = "dialog" => ~ui.generating \/ Dialog!WaitsForArchived)

\* What is listed comes to be what is stored.  A row that shows a challenge
\* being generated comes to show how the job ended, or the page says that it
\* cannot be loaded (TeacherTopicPage.jsx, ChallengeRow's poll and the load that
\* follows it).  Once no more XP is awarded the cached rankings come to be the
\* one stored, for good, though requests that read an older one fill the cache
\* after the deletes of finish_attempt (domain.py, LeaderboardService).
ListsSettle ==
    /\ \A c \in Challenges :
         (screen = "desk" /\ Desk!RowWaits(c)) ~> (screen = "desk" => Desk!RowSettled(c))
    /\ <>[](screen = "rank" => Rank!Quiet) => <>[](screen = "rank" => Rank!CacheCurrent)
=============================================================================
