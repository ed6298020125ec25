---------------------------- MODULE AudioPaths -----------------------------
(***************************************************************************)
(* The audio driver (audio.c, audio.h): the internal codec's input and     *)
(* output path, the I2S between it and the FIFO, their clocks and their    *)
(* DMA channels.  The two paths share the clocks and the codec's standby   *)
(* bits; each has its own mute, power and interface bits.  Gains, filters, *)
(* microphone bias, pins and supplies are left out.                        *)
(*                                                                         *)
(* A call is the sequence of its register writes, made in one step: no     *)
(* interrupt of the driver's comes in between.  What it waits for (codec   *)
(* ready, converters locked, the FIFO's read pointer moving) comes when    *)
(* the clocks run; a call that waits without them is stuck.                *)
(***************************************************************************)
EXTENDS Integers, Sequences, TLC

CONSTANTS
  AudioModes,    \* <<rate, channels and word length>> the application passes
  AudioFlows,    \* flow modes it passes to the initialisations
  AudioInits     \* bound on the number of initialisations

(* One write: of the one-bit fields in mask, those in put are set and the  *)
(* others cleared; the wider fields in the domain of val get its values.   *)
CodecWrite(mask, put, val, wait) == <<[mask |-> mask, put |-> put, val |-> val, wait |-> wait]>>
SetBits(s) == CodecWrite(s, s, <<>>, FALSE)
ClrBits(s) == CodecWrite(s, {}, <<>>, FALSE)
PutBits(mask, put) == CodecWrite(mask, put, <<>>, FALSE)
PutField(f, v) == CodecWrite({}, {}, f :> v, FALSE)
CodecWait == CodecWrite({}, {}, <<>>, TRUE)

vic_ctr == {"SB", "SB_ANALOG", "SLEEP_ANALOG"}

-----------------------------------------------------------------------------
(* The registers' values.                                                  *)

(* audio_sample_rate_e.                                                    *)
RateCode(r) == CASE r = "AUDIO_8K" -> 0 [] r = "AUDIO_16K" -> 3 [] r = "AUDIO_32K" -> 6
                 [] r = "AUDIO_44EP1K" -> 7 [] r = "AUDIO_48K" -> 8
                 [] r = "AUDIO_ADC_16K_DAC_48K" -> 9

(* aduio_set_chn_wl: what the I2S and the codec are told.                  *)
ChnWl(m) ==
  CASE m = "MONO_BIT_16"   -> [mono |-> TRUE,  fifo |-> 16, i2s |-> 16, codec |-> 16]
    [] m = "MONO_BIT_20"   -> [mono |-> TRUE,  fifo |-> 24, i2s |-> 20, codec |-> 20]
    [] m = "MONO_BIT_24"   -> [mono |-> TRUE,  fifo |-> 24, i2s |-> 24, codec |-> 24]
    [] m = "STEREO_BIT_16" -> [mono |-> FALSE, fifo |-> 16, i2s |-> 16, codec |-> 16]
    [] m = "STEREO_BIT_20" -> [mono |-> FALSE, fifo |-> 24, i2s |-> 20, codec |-> 20]
    [] m = "STEREO_BIT_24" -> [mono |-> FALSE, fifo |-> 24, i2s |-> 24, codec |-> 24]

audio_set_i2s_clk(step, mod) == PutField("i2s_clk", <<step, mod>>)
audio_set_i2s_bclk(div) == PutField("bclk", div % 16)
audio_set_lrclk(adc, dac) == PutField("lrclk", <<adc - 1, dac - 1>>)
audio_clk_en(on) == PutBits({"I2S_CLK", "MC_CLK"}, IF on THEN {"I2S_CLK", "MC_CLK"} ELSE {})

(* audio_set_i2s_clock: the divider of each rate.  The two rates that can  *)
(* be trimmed have neighbours to follow a source of samples with, and a    *)
(* change to them first waits for the FIFO's read pointer to move.         *)
I2sClock(step, mod, bclk, adc, dac) ==
  audio_set_i2s_clk(step, mod) \o audio_set_i2s_bclk(bclk) \o audio_set_lrclk(adc, dac)

Trim48K == [LT_L1 |-> <<4, 165, 97>>, LT_L0 |-> <<2, 63, 127>>, EQUAL |-> <<2, 125, 64>>,
            GT_L0 |-> <<3, 169, 71>>, GT_L1 |-> <<4, 129, 124>>]
Trim44K == [LT_L1 |-> <<9, 245, 160>>, LT_L0 |-> <<7, 254, 120>>, EQUAL |-> <<8, 215, 162>>,
            GT_L0 |-> <<11, 228, 210>>, GT_L1 |-> <<5, 170, 128>>]

Trimmed(t, match_en) ==
  (IF match_en THEN CodecWait ELSE <<>>) \o I2sClock(t[1], t[2], 0, t[3], t[3])

audio_set_i2s_clock(rate, match, match_en) ==
  CASE rate = "AUDIO_8K"  -> I2sClock(1, 8, 12, 125, 125)
    [] rate = "AUDIO_16K" -> I2sClock(1, 8, 6, 125, 125)
    [] rate = "AUDIO_32K" -> I2sClock(1, 8, 3, 125, 125)
    [] rate = "AUDIO_ADC_16K_DAC_48K" -> I2sClock(2, 125, 0, 192, 64)
    [] rate = "AUDIO_48K" -> Trimmed(Trim48K[match], match_en)
    [] rate = "AUDIO_44EP1K" -> Trimmed(Trim44K[match], match_en)

-----------------------------------------------------------------------------
(* The calls.  "MCU" writes the codec's registers in place, "I2C" sends    *)
(* whole bytes over the I2C.                                               *)

audio_codec_dac_config(rate, wl, left, wreg) ==
  IF wreg = "MCU"
  THEN SetBits({"DAC_SOFT_MUTE"})
         \o (IF left THEN ClrBits({"DAC_SB"}) \o SetBits({"DAC_LEFT_ONLY"})
                     ELSE ClrBits({"DAC_SB", "DAC_LEFT_ONLY"}))
         \o ClrBits(vic_ctr)
         \o CodecWrite({"DAC_ITF_SB"}, {}, "dac_wl" :> wl, FALSE)
         \o PutField("dac_freq",
                     RateCode(IF rate = "AUDIO_ADC_16K_DAC_48K" THEN "AUDIO_48K" ELSE rate))
         \o ClrBits({"DAC_SOFT_MUTE"})
  ELSE PutBits({"DAC_SB", "DAC_LEFT_ONLY", "DAC_SOFT_MUTE"}, {"DAC_SOFT_MUTE"})
         \o ClrBits(vic_ctr)
         \o CodecWrite({"DAC_ITF_SB"}, {}, "dac_wl" :> wl, FALSE)
         \o PutField("dac_freq", RateCode(rate))
         \o ClrBits({"DAC_SB", "DAC_LEFT_ONLY", "DAC_SOFT_MUTE"})

audio_codec_adc_config(rate, wl, mono, wreg) ==
  IF wreg = "MCU"
  THEN SetBits({"ADC12_SOFT_MUTE"})
         \o ClrBits(IF mono THEN {"ADC1_SB"} ELSE {"ADC1_SB", "ADC2_SB"})
         \o ClrBits(vic_ctr)
         \o PutField("adc_wl", wl) \o ClrBits({"ADC12_SB"})
         \o PutField("adc_freq",
                     RateCode(IF rate = "AUDIO_ADC_16K_DAC_48K" THEN "AUDIO_16K" ELSE rate))
         \o ClrBits({"ADC12_SOFT_MUTE"})
  ELSE PutBits({"ADC1_SB", "ADC2_SB", "ADC12_SOFT_MUTE"}, {"ADC12_SOFT_MUTE"})
         \o ClrBits(vic_ctr)
         \o PutField("adc_wl", wl) \o ClrBits({"ADC12_SB"})
         \o PutField("adc_freq", RateCode(rate))
         \o ClrBits({"ADC1_SB", "ADC2_SB", "ADC12_SOFT_MUTE"})

(* The paths a flow mode uses: "in" up to LINE_IN_TO_BUF, both for the     *)
(* three after it, "out" for BUF_TO_LINE_OUT.                              *)
audio_init(flow, rate, mode, left, wreg) ==
  LET w == ChnWl(mode) IN
    PutField("ain", <<w.fifo, w.mono>>) \o PutField("aout", <<w.fifo, w.mono>>)
      \o PutField("i2s_wl", w.i2s)
      \o audio_set_i2s_clock(rate, "EQUAL", FALSE)
      \o audio_clk_en(TRUE)
      \o PutBits(vic_ctr, {"SLEEP_ANALOG"}) \o CodecWait
      \o (IF flow \in {"in", "both"} THEN audio_codec_adc_config(rate, w.codec, w.mono, wreg) ELSE <<>>)
      \o (IF flow \in {"out", "both"} THEN audio_codec_dac_config(rate, w.codec, left, wreg) ELSE <<>>)
      \o CodecWait

audio_tx_dma_en  == SetBits({"TX_DMA"})
audio_tx_dma_dis == ClrBits({"TX_DMA"})
audio_rx_dma_en  == SetBits({"RX_DMA"})
audio_rx_dma_dis == ClrBits({"RX_DMA"})

audio_pause_out_path  == SetBits({"DAC_SOFT_MUTE"}) \o audio_tx_dma_dis
\* Unmutes and leaves the DMA off.
audio_resume_out_pathFault == ClrBits({"DAC_SOFT_MUTE"})

audio_resume_out_path == ClrBits({"DAC_SOFT_MUTE"}) \o audio_tx_dma_en

audio_change_sample_rate(rate) ==
  audio_set_i2s_clock(rate, "EQUAL", TRUE) \o PutField("dac_freq", RateCode(rate) % 16)

audio_codec_dac_power_down ==
  SetBits({"DAC_SOFT_MUTE"}) \o SetBits({"DAC_ITF_SB"}) \o SetBits({"DAC_SB"})
    \o SetBits({"SLEEP_ANALOG"}) \o SetBits(vic_ctr)
    \o audio_tx_dma_dis \o audio_clk_en(FALSE)

audio_codec_dac_power_on ==
  audio_clk_en(TRUE) \o SetBits({"SLEEP_ANALOG"})
    \o ClrBits({"DAC_SB"}) \o ClrBits({"DAC_ITF_SB"})
    \o ClrBits(vic_ctr) \o ClrBits({"DAC_SOFT_MUTE"}) \o audio_tx_dma_en

audio_codec_adc_power_down ==
  SetBits({"ADC12_SOFT_MUTE"}) \o SetBits({"ADC12_SB"}) \o SetBits({"ADC1_SB", "ADC2_SB"})
    \o SetBits({"SLEEP_ANALOG"}) \o SetBits(vic_ctr)
    \o audio_rx_dma_dis \o audio_clk_en(FALSE)

audio_codec_adc_power_on ==
  audio_clk_en(TRUE) \o SetBits({"SLEEP_ANALOG"})
    \o ClrBits({"ADC1_SB", "ADC2_SB"}) \o ClrBits({"ADC12_SB"})
    \o ClrBits(vic_ctr) \o ClrBits({"ADC12_SOFT_MUTE"}) \o audio_rx_dma_en

(* The chain's one element follows itself.                                 *)
audio_tx_dma_chain_init == audio_tx_dma_en
audio_rx_dma_chain_init == audio_rx_dma_en

-----------------------------------------------------------------------------
VARIABLES
  codec,         \* one-bit fields that are set
  audioField,    \* values of the wider fields
  audioMishaps,       \* "click": DAC switched unmuted; "stuck": a wait without clocks
  audioAsked,         \* what the application audioAsked of each path
  audioInits     \* initialisations so far

audioVars == <<codec, audioField, audioMishaps, audioAsked, audioInits>>

AudioPathNames == {"in", "out"}

(* Reset: everything in standby and muted.  Of a path: its state, whether  *)
(* its DMA was set up; of both: the paths the last rate and word length    *)
(* were set for, and those whose clocks went with the other path.          *)
AudioInit ==
  /\ codec = vic_ctr \cup {"DAC_SB", "DAC_ITF_SB", "DAC_SOFT_MUTE",
                           "ADC1_SB", "ADC2_SB", "ADC12_SB", "ADC12_SOFT_MUTE"}
  /\ audioField = [f \in {"i2s_clk", "bclk", "lrclk", "ain", "aout", "i2s_wl", "dac_wl",
                          "adc_wl", "dac_freq", "adc_freq"} |-> 0]
  /\ audioMishaps = {}
  /\ audioAsked = [path |-> [p \in AudioPathNames |-> "none"], chained |-> {}, mono |-> FALSE, left |-> FALSE,
              rated |-> {}, worded |-> {}, starved |-> {}]
  /\ audioInits = 0

AudioRates == {am[1] : am \in AudioModes}

FlowPaths(flow) == CASE flow = "in" -> {"in"} [] flow = "out" -> {"out"} [] flow = "both" -> AudioPathNames

Written(s, w) ==
  LET after == (s.codec \ w.mask) \cup w.put
      quiet == "DAC_SOFT_MUTE" \in s.codec \cap after \/ ("DAC_SB" \in s.codec <=> "DAC_SB" \in after)
  IN [codec |-> after, field |-> w.val @@ s.field,
      mishaps |-> s.mishaps \cup (IF quiet THEN {} ELSE {"click"})
                     \cup (IF w.wait /\ "MC_CLK" \notin s.codec THEN {"stuck"} ELSE {})]

AudioCall(seq, now) ==
  /\ LET after[n \in 0..Len(seq)] ==
           IF n = 0 THEN [codec |-> codec, field |-> audioField, mishaps |-> audioMishaps]
           ELSE Written(after[n - 1], seq[n])
         end == after[Len(seq)]
     IN codec' = end.codec /\ audioField' = end.field /\ audioMishaps' = end.mishaps
  /\ audioAsked' = now

(* The mixed rate is for audio_init in place: only its writes tell the     *)
(* converters' rates apart.  The choice of the left channel alone does not *)
(* reach the codec over the I2C.  The initialisation brings back the mute  *)
(* and power of a path that was paused or powered down and not its DMA:    *)
(* the application sets that up again.                                     *)
CallInit ==
  /\ audioInits < AudioInits
  /\ \E flow \in AudioFlows, am \in AudioModes, left \in BOOLEAN, wreg \in {"MCU", "I2C"} :
       LET rate == am[1]
           mode == am[2] IN
       /\ rate = "AUDIO_ADC_16K_DAC_48K" => wreg = "MCU"
       /\ left => "out" \in FlowPaths(flow)
       /\ AudioCall(audio_init(flow, rate, mode, left, wreg),
                [audioAsked EXCEPT !.chained = @ \ {p \in FlowPaths(flow) : audioAsked.path[p] \in {"paused", "off"}},
                              !.path = [p \in AudioPathNames |-> IF p \in FlowPaths(flow) THEN "on" ELSE @[p]],
                              !.mono = ChnWl(mode).mono, !.left = left /\ wreg = "MCU",
                              !.rated = FlowPaths(flow), !.worded = FlowPaths(flow), !.starved = {}])
  /\ audioInits' = audioInits + 1

CallChain ==
  /\ UNCHANGED audioInits
  /\ \/ AudioCall(audio_tx_dma_chain_init, [audioAsked EXCEPT !.chained = @ \cup {"out"}])
     \/ AudioCall(audio_rx_dma_chain_init, [audioAsked EXCEPT !.chained = @ \cup {"in"}])

(* The calls on a path that is initialised and has its DMA.                *)
PathReady(p, states) == p \in audioAsked.chained /\ audioAsked.path[p] \in states
OtherPath(p) == CHOOSE q \in AudioPathNames : q # p

CallPause ==
  /\ UNCHANGED audioInits
  /\ \/ PathReady("out", {"on"}) /\ AudioCall(audio_pause_out_path, [audioAsked EXCEPT !.path["out"] = "paused"])
     \/ PathReady("out", {"paused"}) /\ AudioCall(audio_resume_out_path, [audioAsked EXCEPT !.path["out"] = "on"])

CallRate ==
  /\ PathReady("out", {"on", "paused"}) /\ audioAsked.starved = {}
  /\ UNCHANGED audioInits
  /\ \E rate \in AudioRates \ {"AUDIO_ADC_16K_DAC_48K"} :
       AudioCall(audio_change_sample_rate(rate), [audioAsked EXCEPT !.rated = {"out"}])

(* The application follows a source of samples that is a little off.       *)
CallMatch ==
  /\ PathReady("out", {"on"}) /\ audioAsked.starved = {} /\ "out" \in audioAsked.rated
  /\ UNCHANGED audioInits
  /\ \E rate \in AudioRates \cap {"AUDIO_48K", "AUDIO_44EP1K"}, match \in DOMAIN Trim48K :
       /\ audioField["dac_freq"] = RateCode(rate)
       /\ AudioCall(audio_set_i2s_clock(rate, match, TRUE), [audioAsked EXCEPT !.rated = {"out"}])

PathDown(p, seq) ==
  /\ PathReady(p, {"on", "paused"})
  /\ AudioCall(seq, [audioAsked EXCEPT !.path[p] = "off",
                             !.starved = IF audioAsked.path[OtherPath(p)] \in {"on", "paused"}
                                         THEN {OtherPath(p)} ELSE {}])

PathUp(p, seq) ==
  /\ PathReady(p, {"off"})
  /\ AudioCall(seq, [audioAsked EXCEPT !.path[p] = "on", !.starved = {}])

CallPower ==
  /\ UNCHANGED audioInits
  /\ \/ PathDown("out", audio_codec_dac_power_down) \/ PathUp("out", audio_codec_dac_power_on)
     \/ PathDown("in", audio_codec_adc_power_down) \/ PathUp("in", audio_codec_adc_power_on)

AudioNext ==
  CallInit \/ CallChain \/ CallPause \/ CallRate \/ CallMatch \/ CallPower

-----------------------------------------------------------------------------
(* A path that is on works once the call is over, whatever calls came in   *)
(* between: clocks, codec out of standby, its own power, interface and     *)
(* mute, its DMA if it has one.  One case is left out: the power down of   *)
(* one path takes clocks and codec from the other, until either is powered *)
(* on again.  A mono input may keep its second converter.                  *)
PathsServed ==
    \A p \in AudioPathNames \ audioAsked.starved : audioAsked.path[p] = "on" =>
      /\ {"I2S_CLK", "MC_CLK"} \subseteq codec
      /\ codec \cap vic_ctr = {}
      /\ codec \cap (IF p = "out" THEN {"DAC_SB", "DAC_ITF_SB", "DAC_SOFT_MUTE"}
                     ELSE {"ADC1_SB", "ADC12_SB", "ADC12_SOFT_MUTE"}) = {}
      /\ p = "in" /\ ~audioAsked.mono /\ "in" \in audioAsked.worded => "ADC2_SB" \notin codec
      /\ p = "out" /\ "out" \in audioAsked.worded => (("DAC_LEFT_ONLY" \in codec) <=> audioAsked.left)
      /\ p \in audioAsked.chained => (IF p = "out" THEN "TX_DMA" ELSE "RX_DMA") \in codec

(* The rate a converter is told is the rate of its I2S clock, to one part  *)
(* in two thousand, and both sides count the same bits in a word.          *)
Hertz(code) == CASE code = 0 -> 8000 [] code = 3 -> 16000 [] code = 6 -> 32000
                 [] code = 7 -> 44100 [] code = 8 -> 48000 [] code = 9 -> 0
I2sHertz(lr) ==
  LET f == audioField IN
    ((192000000 * f["i2s_clk"][1]) \div f["i2s_clk"][2])
       \div ((IF f["bclk"] = 0 THEN 1 ELSE 2 * f["bclk"]) * (f["lrclk"][lr] + 1))
NearHertz(a, b) == a - b \in -(b \div 2000) .. (b \div 2000)

SamplingAgrees ==
    /\ \A p \in audioAsked.rated : IF p = "out" THEN NearHertz(I2sHertz(2), Hertz(audioField["dac_freq"]))
                               ELSE NearHertz(I2sHertz(1), Hertz(audioField["adc_freq"]))
    /\ \A p \in audioAsked.worded :
         /\ audioField["i2s_wl"] = audioField[IF p = "out" THEN "dac_wl" ELSE "adc_wl"]
         /\ audioField[IF p = "out" THEN "aout" ELSE "ain"] =
              <<IF audioField["i2s_wl"] = 16 THEN 16 ELSE 24, audioAsked.mono>>

(* No call of any sequence switches the DAC while it can be heard, or      *)
(* waits for a codec or FIFO that has no clock.                            *)
QuietSwitching == audioMishaps = {}

(* What is on sounds right and switches without a pop.                     *)
AudioServed == PathsServed /\ SamplingAgrees /\ QuietSwitching
=============================================================================
