------------------------------- MODULE Chatbot -------------------------------
(***************************************************************************)
(* The help chatbot: its prompt sections, read from files into memory      *)
(* (prompt-builder.service.ts), and the answers of the language model,     *)
(* cached in the database (chatbot.service.ts, chatbot-cache.service.ts).  *)
(* A reload reads the files one by one, assembles the prompts, and         *)
(* replaces the stored hashes of the sections before it deletes the        *)
(* answers that were drawn from changed ones; conversations, edits of the  *)
(* files and restarts go on meanwhile.                                     *)
(***************************************************************************)
EXTENDS Naturals, Sequences, FiniteSets, Functions, SequencesExt

CONSTANTS
  Sections,      \* names of prompt files
  Tagged,        \* the sections each role's prompt is made of
  Questions,     \* what users ask, up to normalisation
  Spam,          \* those turned away as meaningless
  OffTopic,      \* those turned away as not about the system
  Similar,       \* pairs of questions the full-text search matches
  Tones,         \* tones with instructions of their own
  Languages,     \* languages users want the answer in
  MaxVersion,    \* bound on the versions of a file
  Calls,         \* conversations that may await the model at once
  Reloads,       \* reloads that may overlap
  MaxEdits,      \* bound on the edits of the files
  MaxRequests    \* bound on the conversations that miss, and reloads

Roles == {"employee", "admin"}
Absent == 0
Idle == [op |-> "idle"]

ASSUME ChatbotAssumption ==
  /\ IsFiniteSet(Sections)
  /\ Tagged \in [Roles -> SUBSET Sections]
  /\ Spam \subseteq Questions /\ OffTopic \subseteq Questions
  /\ Similar \subseteq Questions \X Questions
  /\ MaxVersion \in Nat \ {0}
  /\ MaxEdits \in Nat
  /\ MaxRequests \in Nat

VARIABLES
  disk,        \* version of each prompt file, Absent where there is none
  sections,    \* prompt sections in memory, in the order they were read
  assembled,   \* prompt of each role, assembled from the sections
  hashes,      \* chatbot_prompt_section_hashes: version of each section
  cache,       \* chatbot_cache_entries, by question, role and tone
  call,        \* conversations that await the model or the cache
  reload,      \* reloads suspended at an await
  mixed,       \* history: reloads have overlapped and one of them still runs
  doubtful,    \* history: the prompts were assembled while reloads overlapped
  edits,       \* number of edits, for the bound
  requests     \* number of requests, for the bound

botVars == <<disk, sections, assembled, hashes, cache, call, reload, mixed, doubtful, edits,
             requests>>

Keys == [question: Questions, role: Roles, tone: Tones]
NoEntry == [reply |-> "none"]

\* A section in memory: its file and the version that was read.
Section == [id: Sections, version: 1..MaxVersion]
Ids(s) == {s[i].id : i \in DOMAIN s}

\* assembleForRole, getSectionIdsForRole: the sections with the role's tag, in the order
\* they are in, at the numbers they have.
ForRole(s, r) == Restrict(s, {i \in DOMAIN s : s[i].id \in Tagged[r]})
AssembleAll(s) == [r \in Roles |-> ForRole(s, r)]

SectionIdsForRole(r) == Ids(ForRole(sections, r))

\* loadSections at boot: every file there is, by name.
Files == {id \in Sections : disk[id] # Absent}
Loaded == LET f == SetToSeq(Files) IN [i \in DOMAIN f |-> [id |-> f[i], version |-> disk[f[i]]]]

ChatbotInit ==
  /\ disk = [id \in Sections |-> 1]
  /\ sections = Loaded
  /\ assembled = AssembleAll(sections)
  /\ hashes = [id \in Sections |-> Absent]
  /\ cache = [k \in Keys |-> NoEntry]
  /\ call = [c \in Calls |-> Idle]
  /\ reload = [m \in Reloads |-> Idle]
  /\ mixed = FALSE /\ doubtful = FALSE
  /\ edits = 0 /\ requests = 0

Ask == requests < MaxRequests /\ requests' = requests + 1 /\ UNCHANGED edits
Reloading == {m \in Reloads : reload[m] # Idle}

\* Some reload has begun to store hashes and not yet deleted the answers they outdate.
Syncing == \E m \in Reloads : reload[m].op \in {"hash", "delete"}

----------------------------------------------------------------------------
(* Conversations.                                                          *)

IsSpamInput(q) == q \in Spam
IsOffTopicInput(q) == q \in OffTopic

Fresh(k) == cache[k] # NoEntry /\ ~cache[k].expired

\* fullTextSearch: answers to a similar question for the same role in the same tone.
FullTextSearch(k) ==
  {e \in Keys : /\ e.role = k.role /\ e.tone = k.tone
                /\ Fresh(e)
                /\ <<k.question, e.question>> \in Similar}

\* lookup: the answer to the same question, else one to a similar question.
Lookup(k) == IF Fresh(k) THEN {k} ELSE FullTextSearch(k)

\* buildSystemPrompt: what the model is told for the role, the tone and the language.
SystemPrompt(k, language) == [prompt |-> assembled[k.role], language |-> language]

\* chat, up to the call of the model: the question is in order and nothing is cached.  Long
\* conversations neither look nor save and are left out.
Converse(c, k, language) ==
  /\ call[c] = Idle
  /\ ~IsSpamInput(k.question) /\ ~IsOffTopicInput(k.question)
  /\ Lookup(k) = {}
  /\ Ask
  /\ call' = [call EXCEPT ![c] =
       [op |-> "model", key |-> k, asked |-> SystemPrompt(k, language)]]
  /\ UNCHANGED <<disk, sections, assembled, hashes, cache, reload, mixed, doubtful>>

\* The model answers.  The answer is saved in the background, with the sections that are in
\* memory now.
Answer(c) ==
  LET f == call[c] IN
  /\ f.op = "model"
  /\ call' = [call EXCEPT ![c] =
       [op |-> "save", key |-> f.key, asked |-> f.asked,
        ids |-> SectionIdsForRole(f.key.role)]]
  /\ UNCHANGED <<disk, sections, assembled, hashes, cache, reload, mixed, doubtful, edits,
                 requests>>

\* The call of the model, or the save, fails.
AnswerFails(c) ==
  /\ call[c] # Idle
  /\ call' = [call EXCEPT ![c] = Idle]
  /\ UNCHANGED <<disk, sections, assembled, hashes, cache, reload, mixed, doubtful, edits,
                 requests>>

\* History: the answer is of the sections whose hashes are stored, depends on what it says
\* it depends on, and no reloads overlap.
Sound(prompt, ids) ==
  /\ \A i \in DOMAIN prompt : prompt[i].version = hashes[prompt[i].id]
  /\ Ids(prompt) \subseteq ids
  /\ ~mixed

\* save: the entry of the question, role and tone is replaced; its language stays.
Save(c) ==
  LET f == call[c]
      language == IF cache[f.key] = NoEntry THEN f.asked.language ELSE cache[f.key].language
  IN
  /\ f.op = "save"
  /\ cache' = [cache EXCEPT ![f.key] =
       [reply |-> f.asked, ids |-> f.ids, language |-> language, expired |-> FALSE,
        sound |-> Sound(f.asked.prompt, f.ids)]]
  /\ call' = [call EXCEPT ![c] = Idle]
  /\ UNCHANGED <<disk, sections, assembled, hashes, reload, mixed, doubtful, edits, requests>>

\* The time to live of an answer ends; the row stays.
Expire(k) ==
  /\ Fresh(k)
  /\ cache' = [cache EXCEPT ![k].expired = TRUE]
  /\ UNCHANGED <<disk, sections, assembled, hashes, call, reload, mixed, doubtful, edits, requests>>

----------------------------------------------------------------------------
(* Reloads.                                                                *)

\* Somebody edits, adds or removes a prompt file.
EditFile(id, v) ==
  /\ v # disk[id]
  /\ edits < MaxEdits /\ edits' = edits + 1
  /\ disk' = [disk EXCEPT ![id] = v]
  /\ UNCHANGED <<sections, assembled, hashes, cache, call, reload, mixed, doubtful, requests>>

Distrust(c) == [k \in Keys |-> IF c[k] = NoEntry THEN NoEntry ELSE [c[k] EXCEPT !.sound = FALSE]]

\* loadSections lists the directory and forgets the sections in memory.
ListFiles(m) ==
  /\ reload[m] = Idle
  /\ Ask
  /\ reload' = [reload EXCEPT ![m] = [op |-> "read", files |-> SetToSeq(Files)]]
  /\ sections' = <<>>
  /\ mixed' = (Reloading # {})
  /\ cache' = IF mixed' THEN Distrust(cache) ELSE cache
  /\ UNCHANGED <<disk, assembled, hashes, call, doubtful>>

\* The next file is read.
ReadFile(m) ==
  LET f == reload[m] IN
  /\ f.op = "read" /\ f.files # <<>>
  /\ disk[Head(f.files)] # Absent
  /\ sections' = Append(sections, [id |-> Head(f.files), version |-> disk[Head(f.files)]])
  /\ reload' = [reload EXCEPT ![m].files = Tail(f.files)]
  /\ UNCHANGED <<disk, assembled, hashes, cache, call, mixed, doubtful, edits, requests>>

Settled(m) == Reloading = {m}
Over(m) ==
  /\ reload' = [reload EXCEPT ![m] = Idle]
  /\ mixed' = (mixed /\ ~Settled(m))

\* The directory or a file cannot be read or has no front matter.
ReadFails(m) ==
  /\ reload[m].op = "read" /\ reload[m].files # <<>>
  /\ Over(m)
  /\ UNCHANGED <<disk, sections, assembled, hashes, cache, call, doubtful, edits, requests>>

\* All files are read: the prompts are assembled, and the hashes of the sections computed.
Assemble(m) ==
  LET f == reload[m] IN
  /\ f.op = "read" /\ f.files = <<>>
  /\ assembled' = AssembleAll(sections)
  /\ doubtful' = mixed
  /\ reload' = [reload EXCEPT ![m] =
       [op |-> "diff",
        new |-> [id \in Ids(sections) |->
                   sections[CHOOSE i \in DOMAIN sections :
                     sections[i].id = id /\ \A j \in (i + 1)..Len(sections) : sections[j].id # id
                   ].version]]]
  /\ UNCHANGED <<disk, sections, hashes, cache, call, mixed, edits, requests>>

\* Mutant of Changed: new sections count, those with another text do not.
ChangedAdded(new) == {id \in DOMAIN new : hashes[id] = Absent}

\* Sections with another hash than the stored one, and stored sections that are gone.
Changed(new) ==
  {id \in Sections :
     IF id \in DOMAIN new THEN hashes[id] # new[id] ELSE hashes[id] # Absent}

\* Once all hashes are stored, the answers that depend on changed sections are next.
Sync(m, new, left, changed) ==
  CASE left # {} -> /\ reload' = [reload EXCEPT ![m] =
                         [op |-> "hash", new |-> new, left |-> left, changed |-> changed]]
                    /\ UNCHANGED mixed
    [] left = {} /\ changed # {} ->
                    /\ reload' = [reload EXCEPT ![m] = [op |-> "delete", changed |-> changed]]
                    /\ UNCHANGED mixed
    [] OTHER -> Over(m)

\* The stored hashes are read and compared.
Compare(m) ==
  LET f == reload[m] IN
  /\ f.op = "diff"
  /\ Sync(m, f.new, DOMAIN f.new, Changed(f.new))
  /\ UNCHANGED <<disk, sections, assembled, hashes, cache, call, doubtful, edits, requests>>

\* One hash is stored; those of sections that are gone stay.
StoreHash(m, id) ==
  LET f == reload[m] IN
  /\ f.op = "hash" /\ id \in f.left
  /\ hashes' = [hashes EXCEPT ![id] = f.new[id]]
  /\ Sync(m, f.new, f.left \ {id}, f.changed)
  /\ UNCHANGED <<disk, sections, assembled, cache, call, doubtful, edits, requests>>

Without(id) ==
  [k \in Keys |-> IF cache[k] # NoEntry /\ id \in cache[k].ids THEN NoEntry ELSE cache[k]]

\* The answers that depend on one changed section are deleted.
Invalidate(m, id) ==
  LET f == reload[m] IN
  /\ f.op = "delete" /\ id \in f.changed
  /\ cache' = Without(id)
  /\ IF f.changed = {id}
     THEN Over(m)
     ELSE /\ reload' = [reload EXCEPT ![m].changed = f.changed \ {id}]
          /\ UNCHANGED mixed
  /\ UNCHANGED <<disk, sections, assembled, hashes, call, doubtful, edits, requests>>

\* The database fails in between: the error is logged and the reload reports success.
SyncFails(m) ==
  /\ reload[m].op \in {"diff", "hash", "delete"}
  /\ Over(m)
  /\ cache' = IF reload[m].op = "diff" THEN cache ELSE Distrust(cache)
  /\ UNCHANGED <<disk, sections, assembled, hashes, call, doubtful, edits, requests>>

\* The process is started anew: the files are read before it serves, the hashes not compared.
Restart ==
  /\ sections' = Loaded
  /\ assembled' = AssembleAll(sections')
  /\ call' = [c \in Calls |-> Idle]
  /\ reload' = [m \in Reloads |-> Idle]
  /\ mixed' = FALSE /\ doubtful' = FALSE
  /\ cache' = IF Syncing THEN Distrust(cache) ELSE cache
  /\ UNCHANGED <<disk, hashes, edits, requests>>

ChatbotNext ==
  \/ \E c \in Calls :
       \/ \E k \in Keys, l \in Languages : Converse(c, k, l)
       \/ Answer(c) \/ AnswerFails(c) \/ Save(c)
  \/ \E k \in Keys : Expire(k)
  \/ \E id \in Sections : \E v \in 0..MaxVersion : EditFile(id, v)
  \/ \E m \in Reloads :
       \/ ListFiles(m) \/ ReadFile(m) \/ ReadFails(m) \/ Assemble(m) \/ Compare(m)
       \/ \E id \in Sections : StoreHash(m, id) \/ Invalidate(m, id)
       \/ SyncFails(m)
  \/ Restart

ChatbotSpec == ChatbotInit /\ [][ChatbotNext]_botVars

----------------------------------------------------------------------------
(* Properties.                                                             *)

IsPrompt(p) ==
  /\ DOMAIN p = {"prompt", "language"}
  /\ \A i \in DOMAIN p.prompt : p.prompt[i] \in Section
  /\ p.language \in Languages

\* Types; an entry depends on sections with the tag of its role only.
ChatbotTypeOK ==
  /\ disk \in [Sections -> 0..MaxVersion]
  /\ \A i \in DOMAIN sections : sections[i] \in Section
  /\ hashes \in [Sections -> 0..MaxVersion]
  /\ \A k \in Keys : cache[k] # NoEntry =>
       /\ IsPrompt(cache[k].reply)
       /\ cache[k].ids \subseteq Tagged[k.role]
       /\ cache[k].language \in Languages
       /\ {cache[k].expired, cache[k].sound} \subseteq BOOLEAN
  /\ \A c \in Calls : call[c] # Idle =>
       call[c].op \in {"model", "save"} /\ call[c].key \in Keys /\ IsPrompt(call[c].asked)
  /\ \A m \in Reloads : reload[m].op \in {"idle", "read", "diff", "hash", "delete"}
  /\ {mixed, doubtful} \subseteq BOOLEAN
  /\ edits \in 0..MaxEdits /\ requests \in 0..MaxRequests

\* "auto-invalidate cache entries affected by changes" (prompt-builder.service.ts, line 265):
\* while no reload is between the hashes and the deletions, an answer that was saved for the
\* sections whose hashes were stored, with no overlapping or broken reload since, is drawn
\* from sections that still have those hashes.
CachedAnswersAreCurrent ==
  ~Syncing =>
    \A k \in Keys : cache[k] # NoEntry /\ cache[k].sound =>
      LET p == cache[k].reply.prompt IN
      \A i \in DOMAIN p : p[i].version = hashes[p[i].id]

\* What the cache may serve for a question was drawn from sections for the asker's role:
\* "Admin role is determined from the JWT" (chatbot.controller.ts, line 26), and employees
\* are to hear of "features available to regular employees" (prompt-builder.service.ts,
\* line 219).
ServedForRole ==
  \A k \in Keys : \A e \in Lookup(k) :
    LET p == cache[e].reply.prompt IN \A i \in DOMAIN p : p[i].id \in Tagged[k.role]

\* No section comes twice in a prompt, unless reloads overlapped when it was assembled: each
\* appends to the one list of sections (prompt-builder.service.ts, line 91).
PromptsAreWhole ==
  ~doubtful => \A r \in Roles :
    \A i, j \in DOMAIN assembled[r] : assembled[r][i].id = assembled[r][j].id => i = j
=============================================================================
