-------------------------- MODULE MCPeripherals ----------------------------
(* Instances of Peripherals for TLC.                                       *)
EXTENDS Peripherals

PinOfThread == {<<"C", 1>>}
PinOfHandler == {<<"C", 2>>}
PllValues == {PLL_CLK_96M, PLL_CLK_192M}

Drifts == {-3000, -40, 0, 25, 2000}

Volts == {-200, 0, 1, 333, 900, 1174, 1800, 2555, 3500, 4300}
Moduli == [p |-> 256, n |-> 256, q |-> 192]
AudioUses ==
  {<<"AUDIO_44EP1K", "STEREO_BIT_20">>,
   <<"AUDIO_48K", "MONO_BIT_24">>, <<"AUDIO_ADC_16K_DAC_48K", "STEREO_BIT_16">>}
Lengths == (1 .. 13) \cup {255}
EndsUsed ==
  {{"hspi_tx", "hspi_rx", "i2c_tx", "adc_rx"}, {"pspi_tx", "pspi_rx", "uart1_tx", "rf_rx"},
   {"i2c_rx", "uart0_tx", "uart0_rx", "ana_tx", "rf_tx"}, {"uart1_rx", "pwm_tx", "ana_rx"},
   {"audio_rx", "audio_tx", "pwm_tx", "adc_rx"}}
Irqs ==
  {<<p, Peripheral[p].events>> : p \in {"i2c", "stimer", "aes", "pke"}}
    \cup {<<"uart", s>> : s \in {{"RXDONE", "TXDONE"}, {"RX_ERR", "TXDONE"}, {"RXBUF", "RX_ERR"}}}
    \cup {<<"pwm", s>> : s \in {{"PNUM", "FRAME0"}, {"FRAME1", "IR_FIFO"}}}
    \cup {<<"spi", {"RXF", "END"}>>, <<"rf", {"TX", "RX"}>>, <<"dma", {"TC0", "TC1"}>>,
          <<"usb_ep", {"EDP1", "EDP8"}>>, <<"usb", {"RESET", "SUSPEND"}>>,
          <<"mdec", {"PAD", "MDEC"}>>}
MdecFrames == {<<a, b, c, d>> : a \in {1, 231}, b \in {0, 255}, c \in {16, 37}, d \in {0, 128}}
AllDrivers == Drivers
=============================================================================
