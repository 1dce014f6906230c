------------------------------ MODULE Protocols ------------------------------
(***************************************************************************)
(* Eight small protocols of the app: the switch of sharing with phones,    *)
(* the usage phones are sent, words for a Claude Code session, the         *)
(* settings files of a client, the host's window worker, the readings of   *)
(* an account, what the store of conversations is told of a log, and the   *)
(* snapshots that show waiting cards.  They share nothing, so that each    *)
(* runs in behaviours of its own, and the others stay as they began.       *)
(***************************************************************************)
EXTENDS Naturals

CONSTANTS
    MaxRequests, MaxLaunches,                  \* PhoneShare
    Names, Full, LastDay, MaxTime, MaxRevision, \* PhoneUsage; RequestSnapshots' clock too
    Words, Brief, Lifetime, MaxNow, MaxLoads,  \* ClaudePluginChannel
    Paths, Lines, MaxSaves, MaxCalls,          \* CliSettings
    MaxChanges,                                \* HostMailbox
    Signs, Local, Running, Quiet, MaxMinute, MaxFailed,  \* AccountReadings
    MaxLines, FILL, NameLine, MayCrash,        \* ConversationFeed
    Tickets, Holds, Safety                     \* RequestSnapshots

ASSUME ShareBounds == MaxRequests \in Nat /\ MaxLaunches \in Nat
ASSUME UsageBounds == {Full, LastDay, MaxRevision} \subseteq Nat /\ MaxTime \in Nat \ {0}
ASSUME ClaudeBounds == {Brief, Lifetime, MaxLoads} \subseteq Nat /\ MaxNow \in Nat \ {0}
ASSUME SettingsBounds == MaxSaves \in Nat /\ MaxCalls \in Nat
ASSUME HostBounds == MaxChanges \in Nat
\* Pauses and bounds are numbers, and a failure is counted.
ASSUME ReadingsBounds ==
    /\ Local \in BOOLEAN /\ {Running, Quiet} \subseteq Nat
    /\ MaxMinute \in Nat /\ MaxFailed \in Nat \ {0}
ASSUME FeedBounds == {MaxLines, FILL, NameLine} \subseteq Nat /\ MayCrash \in BOOLEAN
ASSUME SnapsBounds == Holds # {} /\ Holds \subseteq Nat \ {0} /\ Safety \in Nat \ {0}

VARIABLES
    who,
    saved, worker, inbox, page, exit, asked, launches,
    usage, revision, ready, clock, reading, served, consumers, sharing, passed, since,
    prompt, mark, at, told, plugin, underway, submitted, loads, now,
    file, connected, call, answered, expected, raced, saves, calls,
    facts, owed, mailbox, drawer, drawn, amiss,
    minute, sign, control, entry, reader, unheard,
    starts, recent, offset, batch, known, gap, store, failed,
    time, holdMs, pending, created, deadline, dismissed, revised, sent, heard, engine,
    client, requested, turn, byUser, listed, shown, lastDue, dueAt, changed

Share == INSTANCE PhoneShare
Usage == INSTANCE PhoneUsage
Claude == INSTANCE ClaudePluginChannel
Settings == INSTANCE CliSettings
Host == INSTANCE HostMailbox
Readings == INSTANCE AccountReadings WITH MaxTime <- MaxMinute, now <- minute
Feed == INSTANCE ConversationFeed
\* The cards of hooks alone, whose ids are their own, however they are answered.
Snaps == INSTANCE RequestSnapshots WITH
             now <- time, told <- heard, Native <- {}, Ids <- Tickets,
             IdOf <- [t \in Tickets |-> t], Decisions <- {"leave"},
             Takes <- [t \in Tickets |-> {"leave"}]

shareVars == <<saved, worker, inbox, page, exit, asked, launches>>
usageVars == <<usage, revision, ready, clock, reading, served, consumers, sharing, passed, since>>
claudeVars == <<prompt, mark, at, told, plugin, underway, submitted, loads, now>>
settingsVars == <<file, connected, call, answered, expected, raced, saves, calls>>
hostVars == <<facts, owed, mailbox, drawer, drawn, amiss>>
readingsVars == <<minute, sign, control, entry, reader, unheard>>
feedVars == <<starts, recent, offset, batch, known, gap, store, failed>>
snapsVars == <<time, holdMs, pending, created, deadline, dismissed, revised, sent, heard, engine,
               client, requested, turn, byUser, listed, shown, lastDue, dueAt, changed>>
vars == <<who, shareVars, usageVars, claudeVars, settingsVars, hostVars,
          readingsVars, feedVars, snapsVars>>

Init ==
    /\ who \in {"share", "usage", "claude", "settings", "host", "readings", "feed",
                "snapshots"}
    /\ Share!Init /\ Usage!Init /\ Claude!Init /\ Settings!Init /\ Host!Init
    /\ Readings!Init /\ Feed!Init /\ Snaps!Init

ShareNext ==
    /\ who = "share" /\ Share!Next
    /\ UNCHANGED <<who, usageVars, claudeVars, settingsVars, hostVars,
                   readingsVars, feedVars, snapsVars>>

UsageNext ==
    /\ who = "usage" /\ Usage!Next
    /\ UNCHANGED <<who, shareVars, claudeVars, settingsVars, hostVars,
                   readingsVars, feedVars, snapsVars>>

ClaudeNext ==
    /\ who = "claude" /\ Claude!Next
    /\ UNCHANGED <<who, shareVars, usageVars, settingsVars, hostVars,
                   readingsVars, feedVars, snapsVars>>

SettingsNext ==
    /\ who = "settings" /\ Settings!Next
    /\ UNCHANGED <<who, shareVars, usageVars, claudeVars, hostVars,
                   readingsVars, feedVars, snapsVars>>

HostNext ==
    /\ who = "host" /\ Host!Next
    /\ UNCHANGED <<who, shareVars, usageVars, claudeVars, settingsVars,
                   readingsVars, feedVars, snapsVars>>

ReadingsNext ==
    /\ who = "readings" /\ Readings!Next
    /\ UNCHANGED <<who, shareVars, usageVars, claudeVars, settingsVars,
                   hostVars, feedVars, snapsVars>>

FeedNext ==
    /\ who = "feed" /\ Feed!Next
    /\ UNCHANGED <<who, shareVars, usageVars, claudeVars, settingsVars,
                   hostVars, readingsVars, snapsVars>>

SnapsNext ==
    /\ who = "snapshots" /\ Snaps!Next
    /\ UNCHANGED <<who, shareVars, usageVars, claudeVars, settingsVars,
                   hostVars, readingsVars, feedVars>>

Next ==
    \/ ShareNext \/ UsageNext \/ ClaudeNext \/ SettingsNext \/ HostNext
    \/ ReadingsNext \/ FeedNext \/ SnapsNext

Spec == Init /\ [][Next]_vars

-----------------------------------------------------------------------------
\* The values of the variables of the one that runs are those the code has.
TypeOK ==
    CASE who = "share" -> Share!TypeOK
      [] who = "usage" -> Usage!TypeOK
      [] who = "claude" -> Claude!TypeOK
      [] who = "settings" -> Settings!TypeOK
      [] who = "host" -> Host!TypeOK
      [] who = "readings" -> Readings!TypeOK
      [] who = "feed" -> Feed!TypeOK
      [] who = "snapshots" -> Snaps!TypeOK

\* Sharing that the user was told is on or off stays so (PhoneShare).
ToldIsKept == who = "share" => Share!ToldIsKept

\* A phone is served usage that is late by a bounded time (PhoneUsage).
ServedInTime == who = "usage" => Usage!ServedInTime

\* Words reach a Claude Code session once at most (ClaudePluginChannel).
WordsOnce == who = "claude" => Claude!WordsOnce

\* What a client has saved in its settings stays there (CliSettings).
ClientsSettingsStay == who = "settings" => Settings!ClientsSettingsStay

\* What the host has drawn is what is so, once it waits (HostMailbox).
DrawnIsSo == who = "host" => Host!DrawnIsSo

\* The account that is shown is of the homes that are set and of the sign-in
\* there is, or is about to be read again (AccountReadings).
ShownIsCurrent == who = "readings" => Readings!ShownIsCurrent

\* What the store of conversations lacks of a log is noted, unless a delivery
\* failed (ConversationFeed).
HolesAreNoted == who = "feed" => Feed!HolesAreNoted

\* What the HUD shows of the cards is late by the safety refresh at most
\* (RequestSnapshots).
MissedAtMostSafety == who = "snapshots" => Snaps!MissedAtMostSafety

\* No card waits past its deadline while the collector rests (RequestSnapshots).
ExpiresOnTime == who = "snapshots" => Snaps!ExpiresOnTime
=============================================================================
