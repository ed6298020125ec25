--------------------------- MODULE RegisterFields ---------------------------
(***************************************************************************)
(* Registers whose fields belong to different functions: the inline        *)
(* setters of the drivers' headers.  Each reads the register, changes its  *)
(* field and stores the whole; what it leaves of the other fields is what  *)
(* can go wrong.  Clocks, resets and the UART's second control register    *)
(* are even shared by different drivers.                                   *)
(*                                                                         *)
(* A register is its fields, a field its bits, a value the set of its ones *)
(* at their place in the register.  A behaviour uses one register.         *)
(***************************************************************************)
EXTENDS Integers, FiniteSets

LOCAL INSTANCE FiniteSetsExt

CONSTANT FieldsAsked   \* bound on the fields set in a behaviour

VARIABLES
  fldReg,        \* the register in use
  fldStart,      \* its ones at the start
  fldBits,       \* its ones
  fldAsked       \* for each field set: the value asked last

fldVars == <<fldReg, fldStart, fldBits, fldAsked>>

-----------------------------------------------------------------------------
(* The registers, by the enumerations of reg_include.                      *)
reg_rst0 == [HSPI |-> {0}, I2C |-> {1}, UART0 |-> {2}, USB |-> {3}, PWM |-> {4}, UART1 |-> {6},
             SWIRE |-> {7}]
reg_rst1 == [SYS_STIMER |-> {1}, DMA |-> {2}, ALGM |-> {3}, PKE |-> {4}, PSPI |-> {6}, SPISLV |-> {7}]
reg_rst3 == [ZB |-> {0}, MSTCLK |-> {1}, LPCLK |-> {2}, ZB_CRYPT |-> {3}, MSPI |-> {4},
             CODEC |-> {5}, SARADC |-> {6}, ALG |-> {7}]
reg_clk_en0 == [HSPI |-> {0}, I2C |-> {1}, UART0 |-> {2}, USB |-> {3}, PWM |-> {4}, UART1 |-> {6},
                SWIRE |-> {7}]
reg_i2s_step == [STEP |-> 0..6, CLK_EN |-> {7}]
reg_dmic_step == [STEP |-> 0..6, SEL |-> {7}]

reg_spi_mode0 == [CS2SCLK |-> 0..1, LINE3 |-> {2}, LSB |-> {3}, DUAL |-> {4},
                  WORK_MODE |-> 5..6, MASTER |-> {7}]
reg_spi_mode2 == [CMD_FMT |-> {0}, QUAD |-> {1}, CMD_EN |-> {2}, CSHT |-> 4..7]
reg_spi_trans2 == [RX_OR |-> {0}, TX_UR |-> {1}, RX_INT |-> {2}, TX_INT |-> {3}, END |-> {4},
                   SLV_CMD |-> {5}, RX_DMA |-> {6}, TX_DMA |-> {7}]
reg_spi_status == [SLAVE_READY |-> {0}, SOFT_RESET |-> {1}, FIFO_THRES |-> 4..6, BUSY |-> {7}]
reg_hspi_xip_ctrl == [ADDR_EN |-> {0}, ADDR_FMT |-> {1}, ADDR_LEN |-> 2..3, ENABLE |-> {4},
                      STOP |-> {5}, MODE |-> {6}, TIMEOUT_MODE |-> {7}]
reg_hspi_xip_trans_mode == [WR |-> 0..3, RD |-> 4..7]
reg_hspi_panel_ctrl == [DCX_EN |-> {0}, DCX |-> {1}, LANE2 |-> 2..4]

reg_uart_ctrl1 == [CTS_POLARITY |-> {0}, CTS_EN |-> {1}, PARITY_EN |-> {2}, ODD |-> {3},
                   STOP_SEL |-> 4..5, TTL |-> {6}, LOOPBACK |-> {7}]
(* Sixteen bits wide: every access takes ctrl3, the upper byte, with it.   *)
reg_uart_ctrl2 == [RTS_LEV |-> 0..3, RTS_POLARITY |-> {4}, MANUAL_V |-> {5}, MANUAL_M |-> {6},
                   RTS_EN |-> {7}, RX_LEV |-> 8..11, TX_LEV |-> 12..15]
reg_uart_rx_timeout1 == [MUL |-> 0..1, RXDONE |-> {2}, P7816_EN |-> {5}, TXDONE |-> {6}, ERR |-> {7}]

reg_i2s_cfg == [FORMAT |-> 0..1, WL |-> 2..3, LRP |-> {4}, LRSWAP |-> {5}, ADC_MS |-> {6}, DAC_MS |-> {7}]
reg_audio_ctrl == [CMODE |-> 0..1, CODEC_SEL |-> {2}, OUT_BIT |-> {3}]
reg_audio_tune == [AIN0_COME |-> 0..1, AIN1_COME |-> 2..3, AOUT_COME |-> 4..6]
reg_audio_sel == [AIN0 |-> 0..1, AOUT0 |-> 2..3, AIN1 |-> 4..5, AOUT1 |-> 6..7]
reg_fifo_trig0 == [AOUT0 |-> 0..3, AIN0 |-> 4..7]

areg_adc_res_m == [RES_M |-> 0..1, EN_DIFF |-> {6}]
areg_adc_pga_ctrl == [POWER_DOWN |-> {5}]
areg_adc_clk_setting == [CLK_24M |-> {6}]
areg_temp_sensor_ctrl == [POWER_DOWN |-> {4}]
reg_i2s_cfg2 == [FIFO1_RST |-> {3}]
(* No enumeration names these: the core's supply, the comparator (of which *)
(* AnalogGpio has the setters), the pull-up of DP.                         *)
areg_0b == [NVT |-> 0..1, LPC_MODE |-> {3}, LPC_SCALE |-> 4..5, DP_PULLUP |-> {7}]
areg_7d == [USB_DOWN |-> {1}]
reg_system_ctrl == [WR_EN |-> {0}, TIMER_EN |-> {1}, AUTO |-> {2}, TRACK |-> {3}, CAL_MODE |-> 4..7]

reg_pwm_invert == [PWM0 |-> {0}, PWM1 |-> {1}, PWM2 |-> {2}, PWM3 |-> {3}, PWM4 |-> {4}, PWM5 |-> {5}]
reg_pwm_n_invert == [PWM0 |-> {0}, PWM1 |-> {1}, PWM2 |-> {2}, PWM3 |-> {3}, PWM4 |-> {4}, PWM5 |-> {5}]
reg_pwm_pol == [PWM0 |-> {0}, PWM1 |-> {1}, PWM2 |-> {2}, PWM3 |-> {3}, PWM4 |-> {4}, PWM5 |-> {5}]
reg_pwm_mode32k == [PWM0 |-> {0}, PWM1 |-> {1}, PWM2 |-> {2}, PWM3 |-> {3}, PWM4 |-> {4}, PWM5 |-> {5}]

reg_usb_edp_en == [EDP8 |-> {0}, EDP1 |-> {1}, EDP2 |-> {2}, EDP3 |-> {3}, EDP4 |-> {4},
                   EDP5 |-> {5}, EDP6 |-> {6}, EDP7 |-> {7}]
reg_ctrl_ep_irq_mode == [ADDR |-> {0}, CFG |-> {1}, INTF |-> {2}, STA |-> {3}, SYN |-> {4},
                         DESC |-> {5}, FEAT |-> {6}, STD |-> {7}]
reg_mspi_fm == [RD_TRIG_EN |-> {0}, RD_MODE |-> {1}, DATA_LINE |-> 2..3, CSN |-> {4}]
reg_swire_id == [ID_VALID |-> 0..4, FIFO_MODE |-> {7}]
reg_i2c_sct0 == [MASTER |-> {0}, STRETCH |-> {1}, RX_BUF |-> {2}, TX_BUF |-> {3}, TX_DONE |-> {4},
                 RX_DONE |-> {5}, RNCK |-> {6}, SDA_DELAY |-> {7}]
reg_i2c_trig == [RX_LEV |-> 0..3, TX_LEV |-> 4..7]
mdec_rst == [PIN |-> 0..4, RST |-> {7}]
mdec_ctrl == [VALUE |-> 0..3]
reg_rf_ll_ctrl_1 == [FSM |-> {0}, FIRST |-> {1}, RX |-> {2}, CRC_2 |-> {3}, BRX_SN |-> {4},
                     BRX_NESN |-> {5}, PID |-> 6..7]
reg_system_irq_mask == [STIMER |-> {0}, CAL_32K |-> {1}]
(* The sources of the interrupt controller, two of the thirty-two.         *)
reg_irq_src0 == [SYSTIMER |-> {1}, ALG |-> {2}]
reg_irq_feature == [PREEMPT |-> {0}, VECTOR |-> {1}]

SharedRegisters ==
  [rst0 |-> reg_rst0, rst1 |-> reg_rst1, rst3 |-> reg_rst3, clk_en0 |-> reg_clk_en0,
   i2s_step |-> reg_i2s_step, dmic_step |-> reg_dmic_step, spi_mode0 |-> reg_spi_mode0,
   spi_mode2 |-> reg_spi_mode2, spi_trans2 |-> reg_spi_trans2, spi_status |-> reg_spi_status,
   xip_ctrl |-> reg_hspi_xip_ctrl, xip_trans_mode |-> reg_hspi_xip_trans_mode,
   panel_ctrl |-> reg_hspi_panel_ctrl, uart_ctrl1 |-> reg_uart_ctrl1, uart_ctrl2 |-> reg_uart_ctrl2,
   uart_timeout1 |-> reg_uart_rx_timeout1, i2s_cfg |-> reg_i2s_cfg, audio_ctrl |-> reg_audio_ctrl,
   audio_tune |-> reg_audio_tune, audio_sel |-> reg_audio_sel, fifo_trig0 |-> reg_fifo_trig0,
   adc_res_m |-> areg_adc_res_m, adc_pga |-> areg_adc_pga_ctrl, adc_clk |-> areg_adc_clk_setting,
   temp |-> areg_temp_sensor_ctrl, i2s_cfg2 |-> reg_i2s_cfg2, ana_0b |-> areg_0b, ana_7d |-> areg_7d,
   system_ctrl |-> reg_system_ctrl, pwm_invert |-> reg_pwm_invert, pwm_n_invert |-> reg_pwm_n_invert,
   pwm_pol |-> reg_pwm_pol, pwm_mode32k |-> reg_pwm_mode32k, edp_en |-> reg_usb_edp_en,
   ep_irq_mode |-> reg_ctrl_ep_irq_mode, mspi_fm |-> reg_mspi_fm, swire_id |-> reg_swire_id,
   i2c_sct0 |-> reg_i2c_sct0, i2c_trig |-> reg_i2c_trig, mdec_rst |-> mdec_rst,
   mdec_ctrl |-> mdec_ctrl, ll_ctrl_1 |-> reg_rf_ll_ctrl_1, irq_feature |-> reg_irq_feature,
   irq_src0 |-> reg_irq_src0, irq_mask |-> reg_system_irq_mask]

-----------------------------------------------------------------------------
(* The forms of a setter.  It asks something of the fields that `asked'    *)
(* has, what was asked of the others before stays.                         *)
Only(f, v) == [x \in {f} |-> v]

FldCall(r, bits, asked) ==
  /\ fldReg = r
  /\ DOMAIN asked \subseteq DOMAIN fldAsked \/ Cardinality(DOMAIN fldAsked) < FieldsAsked
  /\ fldBits' = bits
  /\ fldAsked' = [f \in DOMAIN asked \cup DOMAIN fldAsked |->
                    IF f \in DOMAIN asked THEN asked[f] ELSE fldAsked[f]]
  /\ UNCHANGED <<fldReg, fldStart>>

(* BM_SET or |=, BM_CLR or &=.                                             *)
FldSwitch(r, f, on) ==
  LET own == SharedRegisters[r][f]
  IN FldCall(r, IF on THEN fldBits \cup own ELSE fldBits \ own, Only(f, IF on THEN own ELSE {}))

(* A reset: the bit is cleared and set again.                              *)
FldPulse(r, f) ==
  LET own == SharedRegisters[r][f]
  IN FldCall(r, (fldBits \ own) \cup own, Only(f, own))

(* Nothing, the lowest bit, all.                                           *)
FldValues(r, f) ==
  LET own == SharedRegisters[r][f]
  IN {{}, {b \in own : \A c \in own : b <= c}, own}

(* &= ~mask, |= value.                                                     *)
FldReplace(r, f, v) == FldCall(r, (fldBits \ SharedRegisters[r][f]) \cup v, Only(f, v))
FldPut(r, f) == \E v \in FldValues(r, f) : FldReplace(r, f, v)

(* The same of an argument that may be too large and is masked.            *)
FldMasked(r, f) ==
  \E v \in FldValues(r, f), over \in {{}, {Max(SharedRegisters[r][f]) + 1}} :
    FldReplace(r, f, (v \cup over) \cap SharedRegisters[r][f])

(* |= value alone.                                                         *)
FldOr(r, f) == \E v \in FldValues(r, f) : FldCall(r, fldBits \cup v, Only(f, v))

(* A store of the whole, of values for some fields and zero for others.    *)
FldStore(r, values) == FldCall(r, UNION {values[f] : f \in DOMAIN values}, values)

-----------------------------------------------------------------------------
(* SPI (spi.h).  An operator stands for the function that switches on and  *)
(* for the one that switches off.                                          *)
spi_cmd_en(on) == FldSwitch("spi_mode2", "CMD_EN", on)
hspi_cmd_fmt_en(on) == FldSwitch("spi_mode2", "CMD_FMT", on)
hspi_quad_mode_en(on) == FldSwitch("spi_mode2", "QUAD", on)
spi_dual_mode_en(on) == FldSwitch("spi_mode0", "DUAL", on)
spi_3line_mode_en(on) == FldSwitch("spi_mode0", "LINE3", on)
hspi_addr_fmt_en(on) == FldSwitch("xip_ctrl", "ADDR_FMT", on)
spi_tx_dma_en(on) == FldSwitch("spi_trans2", "TX_DMA", on)
spi_rx_dma_en(on) == FldSwitch("spi_trans2", "RX_DMA", on)
spi_irq_mask_set(m, on) == FldSwitch("spi_trans2", m, on)
hspi_xip_read_transmode == FldMasked("xip_trans_mode", "RD")
hspi_xip_write_transmode == FldMasked("xip_trans_mode", "WR")
hspi_addr_en(on) == FldSwitch("xip_ctrl", "ADDR_EN", on)
hspi_addr_len == FldOr("xip_ctrl", "ADDR_LEN")
hspi_xip_seq_mode_en(on) == FldSwitch("xip_ctrl", "MODE", on)
hspi_xip_en(on) == FldSwitch("xip_ctrl", "ENABLE", on)
hspi_xip_stop == FldSwitch("xip_ctrl", "STOP", TRUE)
hspi_xip_timeout_mode_en(on) == FldSwitch("xip_ctrl", "TIMEOUT_MODE", on)
spi_slave_ready_en(on) == FldSwitch("spi_status", "SLAVE_READY", on)
spi_rx_tx_irq_trig_cnt == FldMasked("spi_status", "FIFO_THRES")
hspi_3line_dcx_en(on) == FldSwitch("panel_ctrl", "DCX_EN", on)
hspi_set_3line_dcx_data(on) == FldSwitch("panel_ctrl", "DCX", on)
hspi_set_panel_2data_lane_mode == FldPut("panel_ctrl", "LANE2")
hspi_reset == FldPulse("rst0", "HSPI")
pspi_reset == FldPulse("rst1", "PSPI")

SpiFields ==
  \/ \E on \in BOOLEAN :
       \/ spi_cmd_en(on) \/ hspi_cmd_fmt_en(on) \/ hspi_quad_mode_en(on) \/ spi_dual_mode_en(on)
       \/ spi_3line_mode_en(on) \/ hspi_addr_fmt_en(on) \/ spi_tx_dma_en(on) \/ spi_rx_dma_en(on)
       \/ \E m \in {"RX_OR", "TX_UR", "RX_INT", "TX_INT", "END", "SLV_CMD"} : spi_irq_mask_set(m, on)
       \/ hspi_addr_en(on) \/ hspi_xip_seq_mode_en(on) \/ hspi_xip_en(on)
       \/ hspi_xip_timeout_mode_en(on) \/ spi_slave_ready_en(on) \/ hspi_3line_dcx_en(on)
       \/ hspi_set_3line_dcx_data(on)
  \/ hspi_xip_read_transmode \/ hspi_xip_write_transmode \/ hspi_addr_len \/ hspi_xip_stop
  \/ spi_rx_tx_irq_trig_cnt \/ hspi_set_panel_2data_lane_mode \/ hspi_reset \/ pspi_reset

-----------------------------------------------------------------------------
(* UART (uart.h, uart.c).  Without parity its polarity stays as it was.    *)
uart_init_ctrl1(parity, stop) ==
  LET own == reg_uart_ctrl1
      set == (IF parity = "none" THEN {} ELSE own.PARITY_EN) \cup (IF parity = "odd" THEN own.ODD ELSE {})
      changed == (IF parity = "none" THEN own.PARITY_EN ELSE own.PARITY_EN \cup own.ODD) \cup own.STOP_SEL
  IN FldCall("uart_ctrl1", (fldBits \ changed) \cup set \cup stop,
             IF parity = "none" THEN [PARITY_EN |-> {}, STOP_SEL |-> stop]
             ELSE [PARITY_EN |-> own.PARITY_EN, ODD |-> set \cap own.ODD, STOP_SEL |-> stop])
uart_set_cts_en(on) == FldSwitch("uart_ctrl1", "CTS_EN", on)
uart_cts_polarity(on) == FldSwitch("uart_ctrl1", "CTS_POLARITY", on)
uart_set_rts_en(on) == FldSwitch("uart_ctrl2", "RTS_EN", on)
(* A nonzero auto_mode_en is the manual mode (uart_rts_mode_e).            *)
uart_rts_mode(auto_mode_en, inverted) ==
  LET own == reg_uart_ctrl2
      of(on, f) == IF on THEN own[f] ELSE {}
  IN FldCall("uart_ctrl2",
             (fldBits \ (own.MANUAL_M \cup own.RTS_POLARITY))
               \cup of(auto_mode_en, "MANUAL_M") \cup of(inverted, "RTS_POLARITY"),
             [MANUAL_M |-> of(auto_mode_en, "MANUAL_M"), RTS_POLARITY |-> of(inverted, "RTS_POLARITY")])
uart_rts_manual_mode(on) == FldSwitch("uart_ctrl2", "MANUAL_M", on)
uart_set_rts_level(on) == FldSwitch("uart_ctrl2", "MANUAL_V", on)

\* The old level is not cleared.
uart_rts_trig_level_auto_modeFault == FldOr("uart_ctrl2", "RTS_LEV")

uart_rts_trig_level_auto_mode == FldMasked("uart_ctrl2", "RTS_LEV")

uart_rx_irq_trig_level == FldMasked("uart_ctrl2", "RX_LEV")
uart_tx_irq_trig_level == FldMasked("uart_ctrl2", "TX_LEV")
uart_set_dma_rx_timeout == FldPut("uart_timeout1", "MUL")
uart_irq_mask(m, on) == FldSwitch("uart_timeout1", m, on)
uart_rtx_en == FldSwitch("uart_timeout1", "P7816_EN", TRUE)
uart_reset(n) == FldPulse("rst0", n)
uart_clk_en(n) == FldSwitch("clk_en0", n, TRUE)

UartFields ==
  \/ \E on \in BOOLEAN :
       \/ uart_set_cts_en(on) \/ uart_cts_polarity(on) \/ uart_set_rts_en(on)
       \/ uart_rts_manual_mode(on) \/ uart_set_rts_level(on)
       \/ \E m \in {"RXDONE", "TXDONE", "ERR"} : uart_irq_mask(m, on)
       \/ \E inverted \in BOOLEAN : uart_rts_mode(on, inverted)
  \/ \E parity \in {"none", "even", "odd"}, stop \in FldValues("uart_ctrl1", "STOP_SEL") :
       uart_init_ctrl1(parity, stop)
  \/ uart_rts_trig_level_auto_mode \/ uart_rx_irq_trig_level \/ uart_tx_irq_trig_level
  \/ uart_set_dma_rx_timeout \/ uart_rtx_en
  \/ \E n \in {"UART0", "UART1"} : uart_reset(n) \/ uart_clk_en(n)

-----------------------------------------------------------------------------
(* Audio (audio.h, audio.c).  audio_mux_config only adds to audio_ctrl; a  *)
(* selection of one fifo's path is a store of the whole of audio_sel.      *)
audio_i2s_step ==
  \E v \in FldValues("i2s_step", "STEP") : FldStore("i2s_step", [STEP |-> v, CLK_EN |-> {7}])
audio_set_codec_clk ==
  \E v \in FldValues("dmic_step", "STEP") : FldStore("dmic_step", [STEP |-> v, SEL |-> {7}])
audio_i2s_clk_en(on) == FldSwitch("i2s_step", "CLK_EN", on)
audio_codec_clk_en(on) == FldSwitch("dmic_step", "SEL", on)
audio_set_fifo_tx_trig_num == FldMasked("fifo_trig0", "AOUT0")
audio_set_fifo_rx_trig_num == FldMasked("fifo_trig0", "AIN0")
audio_invert_data_en(on) == FldSwitch("i2s_cfg", "LRSWAP", on)
audio_data_fifo0_path_sel ==
  \E i \in FldValues("audio_sel", "AIN0"), o \in FldValues("audio_sel", "AOUT0") :
    FldStore("audio_sel", [AIN0 |-> i, AOUT0 |-> o])
audio_data_fifo1_path_sel ==
  \E i \in FldValues("audio_sel", "AIN1"), o \in FldValues("audio_sel", "AOUT1") :
    FldStore("audio_sel", [AIN1 |-> i, AOUT1 |-> o])
audio_mux_config ==
  \/ FldOr("audio_ctrl", "CMODE") \/ FldOr("audio_ctrl", "CODEC_SEL")
  \/ \E i \in FldValues("audio_tune", "AIN0_COME"), o \in FldValues("audio_tune", "AOUT_COME") :
       FldStore("audio_tune", [AIN0_COME |-> i, AIN1_COME |-> {}, AOUT_COME |-> o])
audio_i2s_config ==
  \E format \in FldValues("i2s_cfg", "FORMAT"), swap \in FldValues("i2s_cfg", "LRSWAP"), m_s \in BOOLEAN :
    FldStore("i2s_cfg",
      [FORMAT |-> format, WL |-> {2}, LRP |-> {}, LRSWAP |-> swap,
       ADC_MS |-> IF m_s THEN {6} ELSE {}, DAC_MS |-> IF m_s THEN {7} ELSE {}])

AudioFields ==
  \/ \E on \in BOOLEAN : audio_i2s_clk_en(on) \/ audio_codec_clk_en(on) \/ audio_invert_data_en(on)
  \/ audio_i2s_step \/ audio_set_codec_clk \/ audio_set_fifo_tx_trig_num
  \/ audio_set_fifo_rx_trig_num \/ audio_data_fifo0_path_sel \/ audio_data_fifo1_path_sel
  \/ audio_mux_config \/ audio_i2s_config

-----------------------------------------------------------------------------
(* The converter (adc.h) and the other analog registers.                   *)
adc_power_off(on) == FldSwitch("adc_pga", "POWER_DOWN", on)
adc_reset == FldPulse("rst3", "SARADC")
adc_fifo_disable(on) == FldSwitch("i2s_cfg2", "FIFO1_RST", on)
adc_clk_en(on) == FldSwitch("adc_clk", "CLK_24M", on)
adc_set_resolution == FldPut("adc_res_m", "RES_M")
adc_en_diff == FldSwitch("adc_res_m", "EN_DIFF", TRUE)
adc_temp_sensor_power_off(on) == FldSwitch("temp", "POWER_DOWN", on)
usb_dp_pullup_en(on) == FldSwitch("ana_0b", "DP_PULLUP", on)
pm_native_power_down(on) == FldSwitch("ana_0b", "NVT", on)
usb_power_off(on) == FldSwitch("ana_7d", "USB_DOWN", on)
mdec_init == FldPut("mdec_rst", "PIN")
mdec_reset ==                                \* the reset bit is set and cleared
  FldCall("mdec_rst", fldBits \ {7}, [RST |-> {}])
pm_set_mdec_value_wakeup == FldPut("mdec_ctrl", "VALUE")

AnalogFields ==
  \/ \E on \in BOOLEAN :
       \/ adc_power_off(on) \/ adc_fifo_disable(on) \/ adc_clk_en(on) \/ adc_temp_sensor_power_off(on)
       \/ usb_dp_pullup_en(on) \/ pm_native_power_down(on) \/ usb_power_off(on)
  \/ adc_reset \/ adc_set_resolution \/ adc_en_diff \/ mdec_init \/ mdec_reset
  \/ pm_set_mdec_value_wakeup

-----------------------------------------------------------------------------
(* The rest.  usbhw_set_eps_en stores the whole of the enable register, as *)
(* plic_set_feature does; the 32 kHz counter is left writable.             *)
stimer_enable(on) == FldSwitch("system_ctrl", "TIMER_EN", on)
clock_32k_wr_en == FldSwitch("system_ctrl", "WR_EN", TRUE)
stimer_track(on) ==
  FldCall("system_ctrl", IF on THEN fldBits \cup {2, 3} ELSE fldBits \ {1, 2, 3},
          IF on THEN [AUTO |-> {2}, TRACK |-> {3}] ELSE [AUTO |-> {}, TRACK |-> {}, TIMER_EN |-> {}])
plic_source_en(src, on) == FldSwitch("irq_src0", src, on)
systimer_irq_enable(on) == FldSwitch("irq_src0", "SYSTIMER", on)
systimer_set_irq_mask(on) == FldSwitch("irq_mask", "STIMER", on)
stimer_set_irq_mask(m, on) == FldSwitch("irq_mask", m, on)
pwm_invert_en(id, on) == FldSwitch("pwm_invert", id, on)
pwm_n_invert_en(id, on) == FldSwitch("pwm_n_invert", id, on)
pwm_set_polarity_en(id, on) == FldSwitch("pwm_pol", id, on)
pwm_32k_chn(id, on) == FldSwitch("pwm_mode32k", id, on)
usbhw_set_eps_en(ep) == FldStore("edp_en", Only(ep, SharedRegisters.edp_en[ep]))
usbhw_set_eps_dis(ep) == FldSwitch("edp_en", ep, FALSE)
usbhw_set_ep_en(ep, on) == FldSwitch("edp_en", ep, on)
usbhw_manual_interrupt(m, off) == FldSwitch("ep_irq_mode", m, off)
mspi_fm_rd_en(on) == FldSwitch("mspi_fm", "RD_TRIG_EN", on)
mspi_high(on) == FldSwitch("mspi_fm", "CSN", on)
swire_fifo_mode_en(on) == FldSwitch("swire_id", "FIFO_MODE", on)
swire_reset == FldPulse("rst0", "SWIRE")
dma_reset == FldPulse("rst1", "DMA")
rf_baseband_reset == FldPulse("rst3", "ZB")
i2c_master_init(on) == FldSwitch("i2c_sct0", "MASTER", on)     \* and i2c_slave_init
i2c_rnck_en == FldSwitch("i2c_sct0", "RNCK", TRUE)
i2c_irq_mask(m, on) == FldSwitch("i2c_sct0", m, on)
i2c_set_master_clk == FldSwitch("clk_en0", "I2C", TRUE)
i2c_rx_irq_trig_cnt == FldPut("i2c_trig", "RX_LEV")
rf_set_ptx_pid == FldOr("ll_ctrl_1", "PID")
plic_set_feature == \E v \in FldValues("irq_feature", "VECTOR") : FldStore("irq_feature", [VECTOR |-> v, PREEMPT |-> {}])
plic_preempt_feature_en(on) == FldSwitch("irq_feature", "PREEMPT", on)

OtherFields ==
  \/ \E on \in BOOLEAN :
       \/ systimer_irq_enable(on) \/ systimer_set_irq_mask(on)
       \/ \E src \in DOMAIN reg_irq_src0 : plic_source_en(src, on)
       \/ \E m \in DOMAIN reg_system_irq_mask : stimer_set_irq_mask(m, on)
       \/ stimer_enable(on) \/ stimer_track(on) \/ mspi_fm_rd_en(on) \/ mspi_high(on)
       \/ swire_fifo_mode_en(on) \/ i2c_master_init(on) \/ plic_preempt_feature_en(on)
       \/ \E id \in DOMAIN reg_pwm_pol :
            \/ pwm_invert_en(id, on) \/ pwm_n_invert_en(id, on)
            \/ pwm_set_polarity_en(id, on) \/ pwm_32k_chn(id, on)
       \/ \E ep \in DOMAIN reg_usb_edp_en : usbhw_set_ep_en(ep, on)
       \/ \E m \in DOMAIN reg_ctrl_ep_irq_mode : usbhw_manual_interrupt(m, on)
       \/ \E m \in {"RX_BUF", "TX_BUF", "TX_DONE", "RX_DONE"} : i2c_irq_mask(m, on)
  \/ \E ep \in DOMAIN reg_usb_edp_en : usbhw_set_eps_en(ep) \/ usbhw_set_eps_dis(ep)
  \/ clock_32k_wr_en \/ swire_reset \/ dma_reset \/ rf_baseband_reset \/ i2c_rnck_en
  \/ i2c_set_master_clk \/ i2c_rx_irq_trig_cnt \/ rf_set_ptx_pid \/ plic_set_feature

-----------------------------------------------------------------------------
FieldsInit ==
  /\ fldReg \in DOMAIN SharedRegisters
  /\ fldStart \in {{}, 0 .. 15}
  /\ fldBits = fldStart
  /\ fldAsked = <<>>

FieldsNext == SpiFields \/ UartFields \/ AudioFields \/ AnalogFields \/ OtherFields

-----------------------------------------------------------------------------
(* Fields whose setters only add ones, and registers of which a setter     *)
(* takes what it does not name.                                            *)
OnlyGrows == {<<"xip_ctrl", "ADDR_LEN">>, <<"audio_ctrl", "CMODE">>, <<"audio_ctrl", "CODEC_SEL">>,
              <<"ll_ctrl_1", "PID">>}
OneOwner == {"audio_sel", "edp_en"}

(* After any sequence of setters a field reads as it was asked last, and   *)
(* one that no setter named as it was at the start, whichever fields of    *)
(* its register were set in between; the named ones excepted.              *)
FieldsAsAsked ==
  \A f \in DOMAIN SharedRegisters[fldReg] :
    LET own == SharedRegisters[fldReg][f]
    IN /\ <<fldReg, f>> \in OnlyGrows /\ f \in DOMAIN fldAsked => fldAsked[f] \subseteq fldBits \cap own
       /\ <<fldReg, f>> \notin OnlyGrows /\ fldReg \notin OneOwner =>
            fldBits \cap own = IF f \in DOMAIN fldAsked THEN fldAsked[f] ELSE fldStart \cap own
=============================================================================
