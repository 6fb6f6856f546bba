--------------------------- MODULE PromptIngress ---------------------------
(***************************************************************************)
(* What Runner.Run makes of a prompt before its turn: images are dropped   *)
(* or validated, scaled and persisted (runtime.go, imgscale.go), a pending *)
(* question takes the text as its answer, a command is expanded, mentions  *)
(* are resolved against the workspace, the user line is appended, and the  *)
(* request is shaped from it (projector.go, shaper.go). Prompts of several *)
(* sessions run at once over one workspace, whose files, rules and command *)
(* chain change under them.                                                *)
(*                                                                         *)
(* Text is a sequence of words. A word is plain, a command's name, a       *)
(* mention, or a placeholder of a command's body.                          *)
(***************************************************************************)
EXTENDS Naturals, Sequences, FiniteSets, SequencesExt, FiniteSetsExt

CONSTANTS
  Session,       \* sessions with a prompt each
  Prompts,       \* what a client may send: sequences of text and image blocks
  Catalog,       \* command name |-> [body, mutating]
  Mentions,      \* mention |-> [path, abs, outside]
  Limits,        \* [maxW, maxH, maxBytes, target, ceiling], imageLimitsFor
  MaxChanges     \* bound: changes of files, rules, chain and disk

(* A client sends texts and images, not references; the long edge images   *)
(* are scaled to is within the limits (DefaultImageLimits).                *)
IngressAssumption ==
  /\ {Limits.maxW, Limits.maxH, Limits.maxBytes, Limits.target} \subseteq Nat
  /\ 1 <= Limits.target /\ Limits.target <= Limits.maxW /\ Limits.target <= Limits.maxH
  /\ \A p \in Prompts :
       /\ p \in Seq(ToSet(p))
       /\ \A b \in ToSet(p) :
            /\ b.kind \in {"text", "image"}
            /\ b.kind = "image" => {b.w, b.h, b.bytes, b.encoded, b.jpeg} \subseteq Nat

VARIABLES
  files,     \* path |-> "file", "dir", "unreadable" or "absent"
  denied,    \* paths the Read rules deny
  authority, \* whether a rule authority is wired (readRuleEval's ok)
  chain,     \* commands the live chain resolves
  disk,      \* image files: [sum, scaled, w, h, bytes]
  supports,  \* session |-> its provider takes images
  asking,    \* session |-> a question is pending
  run,       \* session |-> where its prompt is
  log,       \* session |-> transcript lines of this prompt
  changes,
  lost       \* image files taken away under the agent

vars == <<files, denied, authority, chain, disk, supports, asking, run, log, changes, lost>>

Path == {Mentions[m].path : m \in DOMAIN Mentions}
Nothing == [kind |-> "none"]
Text(ws) == [kind |-> "text", words |-> ws]
IsText(b) == b.kind = "text"
IsImage(b) == b.kind = "image"
Ref(b) == b.kind = "ref"
Carries(b) == IsImage(b) /\ b.data
Undelivered == "[image could not be delivered]"

(* The elements of s at the positions in I, in their order: what the loops *)
(* that copy some of a slice leave, in a form that can be reasoned about.  *)
Rank(I, i) == Cardinality({j \in I : j <= i})
Pick(s, I) == [k \in 1 .. Cardinality(I) |-> s[CHOOSE i \in I : Rank(I, i) = k]]

-----------------------------------------------------------------------------
(* imgscale.go *)

FitLongEdge(w, h) ==
  LET long == Max({w, h})
      Fit(n) == Max({1, (n * Limits.target) \div long})
  IN  IF long <= Limits.target THEN <<w, h>> ELSE <<Fit(w), Fit(h)>>

(* The bytes a frame takes in its own format and as JPEG are the image's;  *)
(* webp has no encoder.                                                    *)
EncodeScaled(img) ==
  IF img.format # "webp" /\ img.encoded <= Limits.maxBytes THEN img.encoded ELSE img.jpeg

ValidateAndScaleImage(img) ==
  LET over == img.w > Limits.maxW \/ img.h > Limits.maxH \/ img.bytes > Limits.maxBytes
      fit == FitLongEdge(img.w, img.h)
  IN  IF ~img.header THEN Nothing
      ELSE IF ~over THEN [kind |-> "fits", w |-> img.w, h |-> img.h, bytes |-> img.bytes]
      ELSE IF \/ img.w * img.h > Limits.ceiling
              \/ ~img.pixels
              \/ EncodeScaled(img) > Limits.maxBytes
           THEN Nothing
      ELSE [kind |-> "scaled", w |-> fit[1], h |-> fit[2], bytes |-> EncodeScaled(img)]

ImageRefFor(img, v, scaled) ==
  [kind |-> "ref", sum |-> img.sum, scaled |-> scaled, w |-> v.w, h |-> v.h, bytes |-> v.bytes]

-----------------------------------------------------------------------------
(* catalog.go *)

\* Two positionals stand for the nine, $1 to $9: the passes differ only in their order.
Placeholder == <<"$1", "$2">>
Field(args, n) == IF n <= Len(args) THEN <<args[n]>> ELSE <<>>
Substitute(words, token, with) ==
  FlattenSeq([i \in 1..Len(words) |-> IF words[i] = token THEN with ELSE <<words[i]>>])
HasPlaceholder(body) == \E i \in DOMAIN body : body[i] \in {"$ARGUMENTS", "$0"} \cup ToSet(Placeholder)

(* The arguments first, then the positionals from the last to the first,   *)
(* each over what the earlier ones left.                                   *)
Expand(body, args) ==
  LET Pass(words, n) == Substitute(words, Placeholder[n], Field(args, n))
      all == FoldLeft(Pass, Substitute(body, "$ARGUMENTS", args), Reverse([n \in 1..Len(Placeholder) |-> n]))
  IN  Substitute(all, "$0", <<>>)
        \o (IF args # <<>> /\ ~HasPlaceholder(body) THEN <<"User arguments:">> \o args ELSE <<>>)

ParseMentions(words) == Pick(words, {i \in DOMAIN words : words[i] \in DOMAIN Mentions})

-----------------------------------------------------------------------------
(* runtime.go *)

FirstTextBlockIndex(blocks) ==
  LET texts == {i \in DOMAIN blocks : IsText(blocks[i])} IN IF texts = {} THEN 0 ELSE Min(texts)
FirstText(blocks) ==
  LET i == FirstTextBlockIndex(blocks) IN IF i = 0 THEN <<>> ELSE blocks[i].words

EnsureTextBearingBlock(blocks) ==
  IF \E i \in DOMAIN blocks : IsText(blocks[i]) /\ blocks[i].words # <<>>
  THEN blocks ELSE Append(blocks, Text(<<Undelivered>>))

(* The command a text resolves to, "" when it is none the chain knows.     *)
Invoked(words) == IF words # <<>> /\ words[1] \in chain THEN words[1] ELSE ""

At(s, place) == run[s].at = place

(* Of a prompt: the blocks as sent and as they are by now; the loop's      *)
(* remaining items, its output and whether it dropped one; what the engine *)
(* took it for and what was expanded; what a mention's stat saw, and the   *)
(* sections; the answer it gave or the blocks it sent. always is only for  *)
(* the properties: the paths denied ever since the prompt came.            *)
Idle == [at |-> "idle", typed |-> <<>>, blocks |-> <<>>, todo |-> <<>>, out |-> <<>>,
         dropped |-> FALSE, engine |-> FALSE, started |-> "", expanded |-> "",
         always |-> {}, shown |-> <<>>, answer |-> <<>>, sent |-> <<>>, seen |-> {}]

Init ==
  /\ files \in [Path -> {"file", "dir"}]
  /\ denied \in SUBSET Path
  /\ authority \in BOOLEAN
  /\ chain = DOMAIN Catalog
  /\ disk = {} /\ lost = {} /\ changes = 0
  /\ supports \in [Session -> BOOLEAN]
  /\ asking \in [Session -> BOOLEAN]
  /\ run = [s \in Session |-> Idle]
  /\ log = [s \in Session |-> <<>>]

World == <<files, denied, authority, chain, supports, changes, lost>>

Arrive(s, p, engine) ==
  /\ At(s, "idle")
  /\ run' = [run EXCEPT ![s] = [Idle EXCEPT !.at = "drop", !.typed = p, !.blocks = p,
                                            !.engine = engine, !.always = denied]]
  /\ UNCHANGED <<World, disk, asking, log>>

DropUnsupportedImages(s) ==
  /\ At(s, "drop")
  /\ LET b == run[s].blocks
         keep == IF supports[s] \/ ~\E i \in DOMAIN b : IsImage(b[i]) THEN b
                 ELSE EnsureTextBearingBlock(Pick(b, {i \in DOMAIN b : ~IsImage(b[i])}))
     IN run' = [run EXCEPT ![s].at = "ingress", ![s].todo = keep]
  /\ UNCHANGED <<World, disk, asking, log>>

Passes(r, b) == [r EXCEPT !.at = "ingress", !.out = Append(@, b), !.todo = Tail(@)]
Drops(r) == [r EXCEPT !.at = "ingress", !.dropped = TRUE, !.todo = Tail(@)]

IngressBlock(s) ==
  /\ At(s, "ingress") /\ run[s].todo # <<>>
  /\ LET b == Head(run[s].todo)
         next == CASE ~Carries(b) -> Passes(run[s], b)
                   [] Carries(b) /\ (~b.base64 \/ ValidateAndScaleImage(b) = Nothing) -> Drops(run[s])
                   [] OTHER -> [run[s] EXCEPT !.at = "original"]
     IN run' = [run EXCEPT ![s] = next]
  /\ UNCHANGED <<World, disk, asking, log>>

(* writeImageAtomic of the original and, when it was scaled, of the        *)
(* derivative; the line's reference is the last one written.               *)
PersistImage(s, stage, ok) ==
  /\ At(s, stage)
  /\ LET b == Head(run[s].todo)
         v == ValidateAndScaleImage(b)
         ref == ImageRefFor(b, IF stage = "scaled" THEN v ELSE b, stage = "scaled")
     IN /\ disk' = IF ok THEN disk \cup {ref} ELSE disk
        /\ run' = [run EXCEPT ![s] =
             CASE ~ok -> Drops(@)
               [] ok /\ stage = "original" /\ v.kind = "scaled" -> [@ EXCEPT !.at = "scaled"]
               [] OTHER -> Passes(@, ref)]
  /\ UNCHANGED <<World, asking, log>>

IngressEnds(s) ==
  /\ At(s, "ingress") /\ run[s].todo = <<>>
  /\ run' = [run EXCEPT ![s].at = "reply",
                        ![s].blocks = IF run[s].dropped THEN EnsureTextBearingBlock(run[s].out)
                                      ELSE run[s].out]
  /\ UNCHANGED <<World, disk, asking, log>>

(* A parked-cancel phrase resolves the question with the non-answer form.  *)
(* A built-in that answers locally (CommandChain) ends the prompt here too. *)
IsParkedCancel(words) == words = <<"cancel-ask">>

RouteAskReply(s) ==
  /\ At(s, "reply")
  /\ IF asking[s] /\ FirstText(run[s].blocks) # <<>>
     THEN /\ asking' = [asking EXCEPT ![s] = FALSE]
          /\ run' = [run EXCEPT ![s].at = "done",
                                ![s].answer = IF IsParkedCancel(FirstText(run[s].blocks)) THEN <<>>
                                              ELSE FirstText(run[s].blocks)]
     ELSE /\ run' = [run EXCEPT ![s].at = IF run[s].engine THEN "invoke" ELSE "expand"]
          /\ UNCHANGED asking
  /\ UNCHANGED <<World, disk, log>>

(* The engine's adapter resolves the raw prompt before it expands it.      *)
InvocationFor(s) ==
  /\ At(s, "invoke")
  /\ run' = [run EXCEPT ![s].at = "expand", ![s].started = Invoked(FirstText(run[s].blocks))]
  /\ UNCHANGED <<World, disk, asking, log>>

Wrote(lines, ok, line) == IF ok THEN Append(lines, line) ELSE lines

(* The freshness probe inside resolveSlashCommand is CommandChain's.       *)
ExpandUserBlocks(s, bOk, pOk) ==
  /\ At(s, "expand")
  /\ LET b == run[s].blocks
         i == FirstTextBlockIndex(b)
         key == Invoked(FirstText(b))
         words == IF key = "" THEN FirstText(b) ELSE Expand(Catalog[key].body, Tail(FirstText(b)))
     IN IF i = 0
        THEN /\ run' = [run EXCEPT ![s].at = "append"]
             /\ UNCHANGED log
        ELSE /\ run' = [run EXCEPT ![s].at = "mentions", ![s].blocks[i] = Text(words),
                                   ![s].expanded = key, ![s].todo = ParseMentions(words)]
             /\ log' = [log EXCEPT ![s] =
                  IF key = "" THEN @
                  ELSE Wrote(Wrote(@, bOk /\ Catalog[key].mutating, "boundary"), pOk, "command")]
  /\ UNCHANGED <<World, disk, asking>>

(* A mention gets one section and one provenance line, whatever became of it. *)
Settles(s, form, ok) ==
  /\ run' = [run EXCEPT ![s].at = "mentions", ![s].todo = Tail(@), ![s].seen = {},
                        ![s].shown = Append(@, <<Head(run[s].todo), form>>)]
  /\ log' = [log EXCEPT ![s] = Wrote(@, ok, "mention")]

ReadDenied(path) == authority /\ path \in denied

StatMention(s, ok) ==
  /\ At(s, "mentions") /\ run[s].todo # <<>>
  /\ LET m == Mentions[Head(run[s].todo)]
     IN CASE (m.abs /\ ~authority) \/ m.outside -> Settles(s, "unresolved", ok)
          [] m.abs /\ ReadDenied(m.path) -> Settles(s, "denied", ok)
          [] ~m.outside /\ (m.abs => authority /\ ~ReadDenied(m.path)) ->
               IF files[m.path] = "absent" THEN Settles(s, "unresolved", ok)
               ELSE /\ run' = [run EXCEPT ![s].at = "reading", ![s].seen = {files[m.path]}]
                    /\ UNCHANGED log
  /\ UNCHANGED <<World, disk, asking>>

(* A directory is listed without a rule, a file is read past the rule that *)
(* its stat did not consult yet.                                           *)
ReadMention(s, ok) ==
  /\ At(s, "reading")
  /\ LET m == Mentions[Head(run[s].todo)]
     IN CASE run[s].seen = {"dir"} ->
               Settles(s, IF files[m.path] = "dir" THEN "dir" ELSE "unresolved", ok)
          [] run[s].seen # {"dir"} /\ ~m.abs /\ ReadDenied(m.path) -> Settles(s, "denied", ok)
          [] run[s].seen # {"dir"} /\ (m.abs \/ ~ReadDenied(m.path)) ->
               Settles(s, IF files[m.path] = "file" THEN "file" ELSE "unresolved", ok)
  /\ UNCHANGED <<World, disk, asking>>

MentionsEnd(s) ==
  /\ At(s, "mentions") /\ run[s].todo = <<>>
  /\ run' = [run EXCEPT ![s].at = "append"]
  /\ UNCHANGED <<World, disk, asking, log>>

(* A line that cannot be written ends the turn. The hooks and the snapshot *)
(* that Session.Prompt runs before it are HookRunner's and SessionTurn's.  *)
AppendUserMessage(s, ok) ==
  /\ At(s, "append")
  /\ log' = [log EXCEPT ![s] = Wrote(@, ok, "user")]
  /\ run' = [run EXCEPT ![s].at = IF ok THEN "shape" ELSE "done"]
  /\ UNCHANGED <<World, disk, asking>>

(* seedMessage and richBlocks: the text, when there is any, and the images *)
(* whose files can still be read. No block stands for an empty body, which *)
(* a request without images renders as one empty text block.               *)
SeedText(blocks) ==
  FlattenSeq([i \in 1..Len(blocks) |-> IF IsText(blocks[i]) THEN blocks[i].words ELSE <<>>])
ImageBlocksOf(blocks) == Pick(blocks, {i \in DOMAIN blocks : Ref(blocks[i])})
RichBlocks(blocks) ==
  (IF SeedText(blocks) = <<>> THEN <<>> ELSE <<Text(SeedText(blocks))>>)
    \o Pick(blocks, {i \in DOMAIN blocks : Ref(blocks[i]) /\ blocks[i] \in disk})

Shape(s) ==
  /\ At(s, "shape")
  /\ run' = [run EXCEPT ![s].at = "done", ![s].sent = RichBlocks(run[s].blocks)]
  /\ UNCHANGED <<World, disk, asking, log>>

(* What happens around the prompts. *)
Changes == changes < MaxChanges /\ changes' = changes + 1
EditFile(p, kind) ==
  /\ Changes /\ files' = [files EXCEPT ![p] = kind]
  /\ UNCHANGED <<denied, authority, chain, disk, supports, asking, run, log, lost>>
EditRules(p) ==
  /\ Changes /\ denied' = IF p \in denied THEN denied \ {p} ELSE denied \cup {p}
  /\ run' = [s \in Session |-> [run[s] EXCEPT !.always = @ \cap denied']]
  /\ UNCHANGED <<files, authority, chain, disk, supports, asking, log, lost>>
Rescan(c) ==
  /\ Changes /\ chain' = IF c \in chain THEN chain \ {c} ELSE chain \cup {c}
  /\ UNCHANGED <<files, denied, authority, disk, supports, asking, run, log, lost>>
LoseImage(f) ==
  /\ Changes /\ disk' = disk \ {f} /\ lost' = lost \cup {f}
  /\ UNCHANGED <<files, denied, authority, chain, supports, asking, run, log>>
AskTimesOut(s) ==
  /\ Changes /\ asking[s] /\ asking' = [asking EXCEPT ![s] = FALSE]
  /\ UNCHANGED <<files, denied, authority, chain, disk, supports, run, log, lost>>

Step(s) ==
  \/ \E p \in Prompts, e \in BOOLEAN : Arrive(s, p, e)
  \/ DropUnsupportedImages(s) \/ IngressBlock(s) \/ IngressEnds(s)
  \/ \E ok \in BOOLEAN : PersistImage(s, "original", ok) \/ PersistImage(s, "scaled", ok)
  \/ RouteAskReply(s) \/ InvocationFor(s)
  \/ \E b \in BOOLEAN, p \in BOOLEAN : ExpandUserBlocks(s, b, p)
  \/ \E ok \in BOOLEAN : StatMention(s, ok) \/ ReadMention(s, ok) \/ AppendUserMessage(s, ok)
  \/ MentionsEnd(s) \/ Shape(s)

Next ==
  \/ \E s \in Session : Step(s)
  \/ \E p \in Path, k \in {"file", "dir", "unreadable", "absent"} : EditFile(p, k)
  \/ \E p \in Path : EditRules(p)
  \/ \E c \in DOMAIN Catalog : Rescan(c)
  \/ \E f \in disk : LoseImage(f)
  \/ \E s \in Session : AskTimesOut(s)

Spec == Init /\ [][Next]_vars

-----------------------------------------------------------------------------
TypeOK ==
  /\ files \in [Path -> {"file", "dir", "unreadable", "absent"}]
  /\ denied \subseteq Path /\ chain \subseteq DOMAIN Catalog /\ authority \in BOOLEAN
  /\ asking \in [Session -> BOOLEAN] /\ supports \in [Session -> BOOLEAN]
  /\ \A s \in Session :
       /\ run[s].at \in {"idle", "drop", "ingress", "original", "scaled", "reply", "invoke", "expand",
                         "mentions", "reading", "append", "shape", "done"}
       /\ ToSet(log[s]) \subseteq {"boundary", "command", "mention", "user"}
  /\ changes \in 0..MaxChanges

(* An image that a user line refers to was accepted for a provider that    *)
(* takes images, is within the provider's limits, and is on disk unless it *)
(* was taken away there, whatever other sessions ingest at the same time.  *)
DeliverableImages ==
  \A s \in Session : "user" \in ToSet(log[s]) =>
    \A b \in ToSet(ImageBlocksOf(run[s].blocks)) :
      /\ supports[s] /\ b \in disk \cup lost
      /\ b.w <= Limits.maxW /\ b.h <= Limits.maxH /\ b.bytes <= Limits.maxBytes

(* "never an empty user message on the wire" (runtime.go 3062-3064): what  *)
(* is sent for a prompt with an image or a word has a block, however its   *)
(* images fared on the way, unless a file was taken away or the text came  *)
(* from a command's body.                                                  *)
NeverEmptyBody ==
  \A s \in Session :
    LET r == run[s]
    IN (r.at = "done" /\ "user" \in ToSet(log[s]) /\ r.sent = <<>>)
         => \/ lost # {} \/ r.expanded # ""
            \/ \A i \in DOMAIN r.typed :
                 ~Carries(r.typed[i]) /\ (IsText(r.typed[i]) => r.typed[i].words = <<>>)

(* A file denied from the prompt's arrival on never gets its content into  *)
(* the prompt, whatever changes around it, between the look at a mention   *)
(* and its reading too.                                                    *)
DeniedNeverShown ==
  \A s \in Session : \A i \in DOMAIN run[s].shown :
    (authority /\ run[s].shown[i][2] = "file") => Mentions[run[s].shown[i][1]].path \notin run[s].always

(* Each mention has one section by the time the line is appended.          *)
MentionsSettled ==
  \A s \in Session : run[s].at \in {"append", "shape"} =>
    [i \in DOMAIN run[s].shown |-> run[s].shown[i][1]] = ParseMentions(FirstText(run[s].blocks))

(* What routeAskReply says (runtime.go 3884-3886): a prompt without text   *)
(* is no answer. Refuted: the placeholder of a dropped image is text, and  *)
(* answers the pending question.                                           *)
ReplyIsTheOperators ==
  \A s \in Session : Undelivered \notin ToSet(run[s].answer)

(* What invocationFor says (runtime.go 841-842): it is exactly the         *)
(* resolution expandUserBlocks acts on. Refuted: a rescan between the two  *)
(* gives the chain a starting command that was not expanded, or none.      *)
StartedByIsExpanded ==
  \A s \in Session :
    run[s].engine /\ run[s].at \in {"mentions", "append"} => run[s].started = run[s].expanded

(* What Expand says (catalog.go 240-242): a substituted literal does not   *)
(* re-expand. Refuted: an argument that looks like a positional is         *)
(* replaced by the later passes.                                           *)
NoReexpansion ==
  \A s \in Session :
    LET r == run[s]
    IN (r.expanded # "" /\ r.at = "append" /\ Catalog[r.expanded].body = <<"$ARGUMENTS">>)
         => FirstText(r.blocks) = Tail(FirstText(r.typed))

(* What commands.go 1358-1360 says of skills: an empty prompt must never   *)
(* reach the model. Refuted for a command whose body is one placeholder,   *)
(* invoked without arguments.                                              *)
NoEmptyExpansion ==
  \A s \in Session : (run[s].at = "done" /\ "user" \in ToSet(log[s]) /\ run[s].expanded # "") => run[s].sent # <<>>
=============================================================================
