------------------------------ MODULE Captions ------------------------------
(***************************************************************************)
(* The caption of the driver group's copy: resolveDriverCaption            *)
(* (src/driverAlertMessageAi.js) over the model chains of                  *)
(* src/groqClient.js and src/geminiClient.js.                              *)
(*                                                                         *)
(* The services are external: an answer is usable text, text whose tags    *)
(* Telegram cannot parse (the model wrote them so, or the cut at 900       *)
(* characters fell inside one), text too short to keep, or an error of     *)
(* some kind.  Prompts, waits between tries and token limits are left out. *)
(***************************************************************************)
EXTENDS Naturals

CONSTANTS
  AiLanes,       \* the lanes whose captions are asked for
  GroqKey,       \* GROQ_API_KEY is set
  GeminiKey,     \* GEMINI_API_KEY is set
  GroqModels,    \* length of the Groq chain
  GeminiModels,  \* length of the Gemini chain
  MaxTries       \* GEMINI_MAX_ATTEMPTS_PER_MODEL

ASSUME CaptionsAssumption ==
  /\ GroqKey \in BOOLEAN /\ GeminiKey \in BOOLEAN
  /\ GroqModels \in Nat \ {0} /\ GeminiModels \in Nat \ {0}
  /\ MaxTries \in Nat \ {0}

VARIABLE ai    \* a lane's resolveDriverCaption in progress

Captioned == {"standard", "friendly", "broken"}

\* at: the service it waits for; "gemini" is the call inside the try of
\* generateFriendlyMessage, "gemini again" the one in its catch.
IdleCaption == [at |-> "idle", model |-> 1, try |-> 1, caption |-> "standard"]

Asking == {"groq", "gemini", "gemini again"}

AiStates ==
  [at : {"idle", "done"} \cup Asking, model : Nat \ {0}, try : 1..MaxTries,
   caption : Captioned]

CaptionsTypeOK == ai \in [AiLanes -> AiStates]

CaptionsInit == ai = [l \in AiLanes |-> IdleCaption]

Captioning(l, caption) == [ai EXCEPT ![l] = [IdleCaption EXCEPT !.at = "done", !.caption = caption]]

Ask(l, service) == [ai EXCEPT ![l] = [IdleCaption EXCEPT !.at = service]]

\* A crash alert keeps the standard text.  A missing Groq key counts as a
\* configuration error, after which Gemini is not asked either.
CaptionStart(l, crash) ==
  /\ ai[l].at = "idle"
  /\ ai' = IF crash \/ ~GroqKey THEN Captioning(l, "standard") ELSE Ask(l, "groq")

\* Whichever service answers, parseDriverMessageResponse keeps its text.
ServiceAnswers(l) ==
  /\ ai[l].at \in Asking
  /\ \E caption \in {"friendly", "broken"} : ai' = Captioning(l, caption)

\* Less than 40 characters: generateViaGroq and generateViaGemini answer null.
ServiceTooShort(l) ==
  /\ ai[l].at \in Asking
  /\ ai' = IF ai[l].at = "groq" /\ GeminiKey THEN Ask(l, "gemini")
                                             ELSE Captioning(l, "standard")

\* 401 or 403 from Groq ends the whole caption.
GroqRefuses(l) ==
  /\ ai[l].at = "groq"
  /\ ai' = Captioning(l, "standard")

\* Any other error moves to the next model, and after the last one to Gemini.
GroqErrors(l) ==
  /\ ai[l].at = "groq"
  /\ ai' = IF ai[l].model < GroqModels THEN [ai EXCEPT ![l].model = @ + 1]
           ELSE IF GeminiKey THEN Ask(l, "gemini again")
           ELSE Captioning(l, "standard")

\* The last model failed.  callGeminiGenerateContent throws: inside the try,
\* the catch takes it for Groq's error and asks Gemini once more.
GeminiFails(l, auth) ==
  IF ai[l].at = "gemini" /\ ~auth THEN Ask(l, "gemini again") ELSE Captioning(l, "standard")

GeminiAlwaysBusy(l) ==
  /\ ai[l].at \in {"gemini", "gemini again"}
  /\ ai[l].try <= MaxTries
  /\ ai' = [ai EXCEPT ![l].try = @ + 1]

\* A transient error (429, 5xx, "try again") is tried again on the same model.
GeminiBusy(l) ==
  /\ ai[l].at \in {"gemini", "gemini again"}
  /\ ai[l].try < MaxTries
  /\ ai' = [ai EXCEPT ![l].try = @ + 1]

\* Quota, an empty answer, a last transient error, a refused key or a failed
\* connection: the next model.  auth: one of the messages joined in the final
\* error reads as a refused key.
GeminiErrors(l) ==
  /\ ai[l].at \in {"gemini", "gemini again"}
  /\ IF ai[l].model < GeminiModels
     THEN ai' = [ai EXCEPT ![l].model = @ + 1, ![l].try = 1]
     ELSE \E auth \in BOOLEAN : ai' = GeminiFails(l, auth)

CaptionStep(l) ==
  \/ ServiceAnswers(l)
  \/ ServiceTooShort(l)
  \/ GroqRefuses(l)
  \/ GroqErrors(l)
  \/ GeminiBusy(l)
  \/ GeminiErrors(l)
=============================================================================
