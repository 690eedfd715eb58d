------------------------------ MODULE MCRegistry ------------------------------
(* Model checking of Registry: one flow and one profile, two publishers that  *)
(* may meet on either, one session, one operator.  Two flow documents are     *)
(* valid and one is not; of the profiles one passes the gate of a live        *)
(* session, one names an engine that does not stream, and the others each    *)
(* miss one thing that Validate asks for.                                    *)
EXTENDS Registry

CONSTANTS sound, batch, off, mute, slow, ungrounded, untranslated, unskilled,
          untiered, unclipped, misrouted, unknown

\* Engines that stream and that do not, of each kind one at least.
MCReg ==
  [id \in {"stt", "batch", "llm", "tts", "kb"} |->
     [port |-> CASE id \in {"stt", "batch"} -> "listen" [] id = "llm" -> "think"
                 [] id = "tts" -> "speak" [] id = "kb" -> "knowledge",
      streaming |-> id \in {"stt", "tts"}]]

Providers(listen, knowledge) ==
  [listen |-> listen, speak |-> <<"tts">>, think |-> <<"llm">>,
   knowledge |-> knowledge, translate |-> <<>>]

Sound ==
  [modes |-> {"talk"}, voices |-> {"tts"}, rate |-> 16000, grounding |-> FALSE,
   translating |-> FALSE, allowed |-> {}, skills |-> [s \in {"crm"} |-> NoGateway],
   ladder |-> {"clip", "llm"}, clips |-> {"sorry"}, canned |-> {"sorry"},
   httpKB |-> NoGateway, providers |-> Providers(<<"batch", "stt">>, <<>>)]

Batch == [Sound EXCEPT !.providers = Providers(<<"batch">>, <<"kb">>)]

MCBody ==
  sound :> Sound @@ batch :> Batch
    @@ off :> [Sound EXCEPT !.modes = {}] @@ mute :> [Sound EXCEPT !.voices = {}]
    @@ slow :> [Sound EXCEPT !.rate = 7999] @@ ungrounded :> [Sound EXCEPT !.grounding = TRUE]
    @@ untranslated :> [Sound EXCEPT !.translating = TRUE]
    @@ unskilled :> [Sound EXCEPT !.allowed = {"pay"}]
    @@ untiered :> [Sound EXCEPT !.ladder = {"song"}]
    @@ unclipped :> [Sound EXCEPT !.canned = {"wait"}]
    @@ misrouted :> [Sound EXCEPT !.httpKB = "stt"]
    @@ unknown :> [Sound EXCEPT !.providers = Providers(<<"ghost">>, <<>>)]
=============================================================================
