----------------------------- MODULE MeetingFloor -----------------------------
(***************************************************************************)
(* What goes on in the room of one meeting besides its hosts: the speech   *)
(* of the participants becomes subtitles, one chunk of audio per socket at *)
(* a time (meetings.gateway.ts, speech.service.ts), and votes are opened,  *)
(* cast and closed.  A socket that disconnects never comes back.           *)
(***************************************************************************)
EXTENDS Naturals, Sequences, FiniteSets

CONSTANTS
  Clients,       \* sockets
  Viewers,       \* sockets whose screens are followed
  Voters,        \* users
  VoterOf,       \* the user of each socket
  Options,       \* the options of a vote
  SttEnabled,    \* STT_ENABLED: speech is transcribed at all
  Groq,          \* a key for the cloud service is configured
  MaxChunks,     \* bound on the chunks of one socket
  MaxVotes,      \* bound on the votes
  MaxSessions    \* bound on the times the room fills

ASSUME FloorAssumption ==
  /\ Viewers \subseteq Clients
  /\ VoterOf \in [Clients -> Voters]
  /\ SttEnabled \in BOOLEAN /\ Groq \in BOOLEAN
  /\ MaxChunks \in Nat /\ MaxVotes \in Nat /\ MaxSessions \in Nat

VARIABLES
  inRoom,       \* sockets in activeParticipants
  gone,         \* sockets that have disconnected
  processing,   \* processingAudio
  chunks,       \* chunks being worked on
  spoken,       \* number of chunks taken of each socket
  screen,       \* subtitle events each viewer has had, in order
  votes,        \* activeVotes of the meeting
  session,      \* number of times the room has filled
  carried,      \* history: votes somebody opened in an empty room or left behind
  voted         \* number of votes opened, for the bound

floorVars == <<inRoom, gone, processing, chunks, spoken, screen, votes, session, carried, voted>>
audioVars == <<processing, chunks, spoken, screen>>
voteVars == <<votes, carried, voted>>

FloorInit ==
  /\ inRoom = {} /\ gone = {}
  /\ processing = {} /\ chunks = {}
  /\ spoken = [c \in Clients |-> 0]
  /\ screen = [c \in Viewers |-> <<>>]
  /\ votes = {} /\ carried = {} /\ voted = 0
  /\ session = 0

----------------------------------------------------------------------------
(* Coming and going.                                                       *)

ComeIn(c) ==
  /\ c \notin inRoom \cup gone
  /\ inRoom = {} => session < MaxSessions
  /\ session' = IF inRoom = {} THEN session + 1 ELSE session
  /\ inRoom' = inRoom \cup {c}
  /\ UNCHANGED <<gone, audioVars, voteVars>>

\* leave_meeting: the last one out forgets the hosts, the votes stay.
GoOut(c) ==
  /\ c \in inRoom
  /\ inRoom' = inRoom \ {c}
  /\ carried' = IF inRoom' = {} THEN carried \cup {v.id : v \in votes} ELSE carried
  /\ UNCHANGED <<gone, audioVars, votes, voted, session>>

\* Mutant of HangUp: only the hosts are forgotten.
HangUpOnly(c) ==
  /\ c \notin gone
  /\ gone' = gone \cup {c} /\ inRoom' = inRoom \ {c}
  /\ processing' = processing \ {c}
  /\ UNCHANGED <<chunks, spoken, screen, voteVars, session>>

\* handleDisconnect: a chunk at work goes on; the votes go with the last participant.
HangUp(c) ==
  /\ c \notin gone
  /\ gone' = gone \cup {c} /\ inRoom' = inRoom \ {c}
  /\ processing' = processing \ {c}
  /\ votes' = IF inRoom = {c} THEN {} ELSE votes
  /\ UNCHANGED <<chunks, spoken, screen, carried, voted, session>>

\* end_meeting empties the room.
CloseRoom ==
  /\ inRoom # {}
  /\ inRoom' = {} /\ votes' = {}
  /\ UNCHANGED <<gone, audioVars, carried, voted, session>>

----------------------------------------------------------------------------
(* Audio.                                                                  *)

\* transcribeOnly begins with the cloud service if there is a key for it.
FirstService == IF Groq THEN "groq" ELSE "whisper"

\* Mutant of AudioStream: chunks are taken while one is at work.
AudioStreamAlways(c) ==
  /\ c \in inRoom
  /\ spoken[c] < MaxChunks /\ spoken' = [spoken EXCEPT ![c] = @ + 1]
  /\ processing' = processing \cup {c}
  /\ chunks' = chunks \cup {[client |-> c, n |-> spoken'[c], at |-> FirstService]}
  /\ UNCHANGED <<inRoom, gone, screen, voteVars, session>>

\* audio_stream: a chunk that comes while one is at work is dropped.  The queue below that
\* check is never reached, so that nothing is ever queued.
AudioStream(c) ==
  /\ c \in inRoom
  /\ c \notin processing
  /\ spoken[c] < MaxChunks /\ spoken' = [spoken EXCEPT ![c] = @ + 1]
  /\ processing' = processing \cup {c}
  /\ chunks' = chunks \cup {[client |-> c, n |-> spoken'[c], at |-> FirstService]}
  /\ UNCHANGED <<inRoom, gone, screen, voteVars, session>>

\* An event reaches the sockets in the room.
Subtitle(x, kind) ==
  screen' = [c \in Viewers |->
    IF c \in inRoom THEN Append(screen[c], [of |-> x.client, n |-> x.n, kind |-> kind])
    ELSE screen[c]]

Become(x, at) == chunks' = (chunks \ {x}) \cup {[client |-> x.client, n |-> x.n, at |-> at]}

\* finally: the socket may send again.
Release(x) ==
  /\ chunks' = chunks \ {x}
  /\ processing' = processing \ {x.client}

\* There is text: subtitle_partial, and the translation is asked for.
Transcribed(x) ==
  /\ SttEnabled
  /\ x.at \in {"groq", "whisper"}
  /\ Subtitle(x, "partial")
  /\ Become(x, "translate")
  /\ UNCHANGED <<inRoom, gone, processing, spoken, voteVars, session>>

\* Silence, noise, too little of a text, one the service made up, or transcription is off.
NothingHeard(x) ==
  /\ x.at \in {"groq", "whisper"}
  /\ Release(x)
  /\ UNCHANGED <<inRoom, gone, spoken, screen, voteVars, session>>

\* transcribeWithGroq fails or takes ten seconds: the local service is asked.
GroqFails(x) ==
  /\ SttEnabled
  /\ x.at = "groq"
  /\ Become(x, "whisper")
  /\ UNCHANGED <<inRoom, gone, processing, spoken, screen, voteVars, session>>

\* transcribeWithLocalWhisper fails or takes 45 seconds: an empty text.
WhisperFails(x) ==
  /\ SttEnabled
  /\ x.at = "whisper"
  /\ Release(x)
  /\ UNCHANGED <<inRoom, gone, spoken, screen, voteVars, session>>

\* Mutant of Translated: the socket stays busy.
TranslatedOnly(x) ==
  /\ x.at = "translate"
  /\ Subtitle(x, "update")
  /\ chunks' = chunks \ {x}
  /\ UNCHANGED <<inRoom, gone, processing, spoken, voteVars, session>>

\* translateAndSynthesize answers, possibly with no translation: subtitle_update.
Translated(x) ==
  /\ x.at = "translate"
  /\ Subtitle(x, "update")
  /\ Release(x)
  /\ UNCHANGED <<inRoom, gone, spoken, voteVars, session>>

\* It fails: the partial subtitle gets no update.
TranslationFails(x) ==
  /\ x.at = "translate"
  /\ Release(x)
  /\ UNCHANGED <<inRoom, gone, spoken, screen, voteVars, session>>

ChunkStep(x) ==
  \/ Transcribed(x) \/ NothingHeard(x) \/ GroqFails(x) \/ WhisperFails(x)
  \/ Translated(x) \/ TranslationFails(x)

----------------------------------------------------------------------------
(* Votes.  Nobody who votes has to be in the room.                         *)

NoVote == [u \in Voters |-> {}]

VoteCreate(c, invited, single) ==
  /\ c \notin gone
  /\ voted < MaxVotes /\ voted' = voted + 1
  /\ votes' = votes \cup
       {[id |-> voted', by |-> VoterOf[c], invited |-> invited, single |-> single,
         open |-> TRUE, cast |-> NoVote, session |-> session]}
  /\ carried' = IF inRoom = {} THEN carried \cup {voted'} ELSE carried
  /\ UNCHANGED <<inRoom, gone, audioVars, session>>

\* The choice takes the place of an earlier one; an empty invitation is for everybody.
VoteCast(c, v, chosen) ==
  /\ c \notin gone
  /\ v.open
  /\ v.invited = {} \/ VoterOf[c] \in v.invited
  /\ chosen # {} /\ (v.single => Cardinality(chosen) = 1)
  /\ votes' = (votes \ {v}) \cup {[v EXCEPT !.cast = [@ EXCEPT ![VoterOf[c]] = chosen]]}
  /\ UNCHANGED <<inRoom, gone, audioVars, carried, voted, session>>

VoteClose(c, v) ==
  /\ c \notin gone
  /\ v.open /\ v.by = VoterOf[c]
  /\ votes' = (votes \ {v}) \cup {[v EXCEPT !.open = FALSE]}
  /\ UNCHANGED <<inRoom, gone, audioVars, carried, voted, session>>

----------------------------------------------------------------------------
PeopleNext == (\E c \in Clients : ComeIn(c) \/ GoOut(c) \/ HangUp(c)) \/ CloseRoom
AudioNext == (\E c \in Clients : AudioStream(c)) \/ \E x \in chunks : ChunkStep(x)
VotesNext ==
  \E c \in Clients :
    \/ \E invited \in SUBSET Voters, single \in BOOLEAN : VoteCreate(c, invited, single)
    \/ \E v \in votes : VoteClose(c, v) \/ \E chosen \in SUBSET Options : VoteCast(c, v, chosen)

FloorNext == PeopleNext \/ AudioNext \/ VotesNext

\* Both transcriptions are given up after a time, and the requests for the translation too.
FloorFairness ==
  \A c \in Clients, n \in 1..MaxChunks, at \in {"groq", "whisper", "translate"} :
    LET x == [client |-> c, n |-> n, at |-> at] IN
    WF_floorVars(x \in chunks /\ ChunkStep(x))

FloorSpec == FloorInit /\ [][FloorNext]_floorVars /\ FloorFairness

----------------------------------------------------------------------------
(* Properties.                                                             *)

FloorTypeOK ==
  /\ inRoom \subseteq Clients /\ gone \subseteq Clients /\ inRoom \cap gone = {}
  /\ processing \subseteq Clients
  /\ chunks \subseteq [client: Clients, n: 1..MaxChunks, at: {"groq", "whisper", "translate"}]
  /\ spoken \in [Clients -> 0..MaxChunks]
  /\ \A v \in votes : v.id \in 1..voted /\ v.session \in 0..session
  /\ voted \in 0..MaxVotes /\ session \in 0..MaxSessions

\* The subtitles of a socket come in the order in which it was spoken, on every screen, and
\* the translation of a sentence before the next sentence, however long each takes: "Skip if
\* previous chunk is still being processed" (meetings.gateway.ts, line 853).
SubtitlesInOrder ==
  \A c \in Viewers : LET s == screen[c] IN
    \A i, j \in DOMAIN s : i < j /\ s[i].of = s[j].of =>
      s[i].n < s[j].n \/ (s[i].n = s[j].n /\ s[i].kind = "partial" /\ s[j].kind = "update")

\* A socket whose chunk is at work may send again, whatever service fails
\* (meetings.gateway.ts, lines 964-981).
SpeakersFreed == \A c \in Clients : c \in processing ~> c \notin processing

\* The votes of the room were opened since it filled, but for one opened while it was
\* empty, and those left behind when the last participant left by leave_meeting
\* (meetings.gateway.ts, lines 266 and 456-459).
VotesAreOfSession ==
  inRoom # {} => \A v \in votes : v.session = session \/ v.id \in carried
=============================================================================
