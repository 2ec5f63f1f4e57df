------------------------------ MODULE RpcTables -----------------------------
(***************************************************************************)
(* The functions that the drivers serve to other tiles (the _rpc.c files   *)
(* of the drivers).  Each is written twice: the client describes the       *)
(* parameters it sends, the host function has variables of its own for     *)
(* them and allocates the buffers it fills, and nothing but care keeps the *)
(* two in step.  For every function, this module gives the client's        *)
(* descriptors and the sizes of the host's variables and buffers, and      *)
(* makes the calls of RpcMarshal with them.                                *)
(*                                                                         *)
(* A pointer, a size_t, an unsigned, an int and an enumeration are words.  *)
(***************************************************************************)
EXTENDS RpcMarshal

CONSTANTS
    RpcLengths,           \* lengths that callers ask for
    I2sNumIn, I2sNumOut,  \* data lines of the I2S instance
    MicCount              \* MIC_ARRAY_CONFIG_MIC_COUNT

ASSUME TablesAssumption ==
    RpcLengths \subseteq Nat /\ {I2sNumIn, I2sNumOut, MicCount} \subseteq Nat

Word == 4
Byte == 1

\* The macros that describe parameters.
RPC_PARAM_TYPE(size) == [length |-> size, ptr |-> FALSE, input |-> TRUE, output |-> FALSE]
RPC_PARAM_RETURN(size) == [length |-> size, ptr |-> FALSE, input |-> FALSE, output |-> TRUE]
RPC_PARAM_IN_BUFFER(size, n) ==
    [length |-> size * n, ptr |-> TRUE, input |-> TRUE, output |-> FALSE]
RPC_PARAM_OUT_BUFFER(size, n) ==
    [length |-> size * n, ptr |-> TRUE, input |-> FALSE, output |-> TRUE]

WordIn == RPC_PARAM_TYPE(Word)
ByteIn == RPC_PARAM_TYPE(Byte)
WordOut == RPC_PARAM_RETURN(Word)

\* A pointer into the request: the host allocates nothing.
InMessage == 0

-----------------------------------------------------------------------------
(* Client and host of each driver, by function code.                       *)

gpio_remote ==
    [port_enable |-> <<WordIn, WordIn>>,
     port_in |-> <<WordIn, WordIn, WordOut>>,
     port_out |-> <<WordIn, WordIn, WordIn>>,
     port_write_control_word |-> <<WordIn, WordIn, WordIn>>,
     isr_callback_set |-> <<WordIn, WordIn, WordIn>>,
     interrupt_enable |-> <<WordIn, WordIn>>,
     interrupt_disable |-> <<WordIn, WordIn>>]

gpio_host ==
    [port_enable |-> <<Word, Word>>,
     port_in |-> <<Word, Word, Word>>,
     port_out |-> <<Word, Word, Word>>,
     port_write_control_word |-> <<Word, Word, Word>>,
     isr_callback_set |-> <<Word, Word, Word>>,
     interrupt_enable |-> <<Word, Word>>,
     interrupt_disable |-> <<Word, Word>>]

\* A read goes in pieces; these are the parameters of one of n bytes.
qspi_flash_remote(n) ==
    [lock |-> <<WordIn>>,
     unlock |-> <<WordIn>>,
     read |-> <<WordIn, RPC_PARAM_OUT_BUFFER(Byte, n), WordIn, WordIn>>,
     read_mode |-> <<WordIn, RPC_PARAM_OUT_BUFFER(Byte, n), WordIn, WordIn, WordIn>>,
     write |-> <<WordIn, RPC_PARAM_IN_BUFFER(Byte, n), WordIn, WordIn>>,
     erase |-> <<WordIn, WordIn, WordIn>>]

\* A buffer of len bytes for a read, none when len is zero.
qspi_flash_host(n) ==
    [lock |-> <<Word>>,
     unlock |-> <<Word>>,
     read |-> <<Word, n, Word, Word>>,
     read_mode |-> <<Word, n, Word, Word, Word>>,
     write |-> <<Word, InMessage, Word, Word>>,
     erase |-> <<Word, Word, Word>>]

i2c_master_remote(n) ==
    [write |-> <<WordIn, ByteIn, RPC_PARAM_IN_BUFFER(Byte, n), WordIn, WordOut, WordIn, WordOut>>,
     read |-> <<WordIn, ByteIn, RPC_PARAM_OUT_BUFFER(Byte, n), WordIn, WordIn, WordOut>>,
     stop_bit_send |-> <<WordIn>>,
     reg_write |-> <<WordIn, ByteIn, ByteIn, ByteIn, WordOut>>,
     reg_read |-> <<WordIn, ByteIn, ByteIn, RPC_PARAM_RETURN(Byte), WordOut>>]

i2c_master_host(n) ==
    [write |-> <<Word, Byte, InMessage, Word, Word, Word, Word>>,
     read |-> <<Word, Byte, n, Word, Word, Word>>,
     stop_bit_send |-> <<Word>>,
     reg_write |-> <<Word, Byte, Byte, Byte, Word>>,
     reg_read |-> <<Word, Byte, Byte, Byte, Word>>]

\* Either buffer of a transfer may be left out.
spi_master_remote(n, out, in) ==
    [transaction_start |-> <<WordIn>>,
     transfer |-> <<WordIn, RPC_PARAM_IN_BUFFER(Byte, IF out THEN n ELSE 0),
                    RPC_PARAM_OUT_BUFFER(Byte, IF in THEN n ELSE 0), WordIn>>,
     delay_before_next_transfer |-> <<WordIn, WordIn>>,
     transaction_end |-> <<WordIn>>]

\* The host finds out from the pointer it is given whether data is wanted.
spi_master_host(n, in) ==
    [transaction_start |-> <<Word>>,
     transfer |-> <<Word, InMessage, IF in THEN n ELSE 0, Word>>,
     delay_before_next_transfer |-> <<Word, Word>>,
     transaction_end |-> <<Word>>]

\* Frames hold a left and a right sample of every line.
i2s_remote(n) ==
    [rx |-> <<WordIn, RPC_PARAM_OUT_BUFFER(Word, n * (2 * I2sNumIn)), WordIn, WordIn, WordOut>>,
     tx |-> <<WordIn, RPC_PARAM_IN_BUFFER(Word, n * (2 * I2sNumOut)), WordIn, WordIn, WordOut>>]

\* The buffer for what is received is allocated for the lines that send.
i2s_host(n) ==
    [rx |-> <<Word, n * (2 * I2sNumOut) * Word, Word, Word, Word>>,
     tx |-> <<Word, InMessage, Word, Word, Word>>]

mic_array_remote(n) ==
    [rx |-> <<WordIn, RPC_PARAM_OUT_BUFFER(Word, n * MicCount), WordIn, WordIn, WordOut>>]

mic_array_host(n) ==
    [rx |-> <<Word, Word * n * MicCount, Word, Word, Word>>]

uart_tx_remote(n) == [write |-> <<WordIn, RPC_PARAM_IN_BUFFER(Byte, n), WordIn>>]
uart_tx_host == [write |-> <<Word, InMessage, Word>>]

clock_control_remote ==
    [set_ref_clk_div |-> <<WordIn, WordIn>>,
     set_processor_clk_div |-> <<WordIn, WordIn>>,
     set_switch_clk_div |-> <<WordIn, WordIn>>,
     get_ref_clk_div |-> <<WordIn, WordOut>>,
     get_processor_clk_div |-> <<WordIn, WordOut>>,
     get_switch_clk_div |-> <<WordIn, WordOut>>,
     get_processor_clock |-> <<WordIn, WordOut>>,
     get_ref_clock |-> <<WordIn, WordOut>>,
     get_switch_clock |-> <<WordIn, WordOut>>,
     set_node_pll_ratio |-> <<WordIn, WordIn, WordIn, WordIn>>,
     get_node_pll_ratio |-> <<WordIn, WordOut, WordOut, WordOut>>,
     scale_links |-> <<WordIn, WordIn, WordIn, WordIn, WordIn>>,
     reset_links |-> <<WordIn, WordIn, WordIn>>,
     get_local_lock |-> <<WordIn>>,
     release_local_lock |-> <<WordIn>>]

\* The getters pass no variable for the result to rpc_request_unmarshall, which
\* has no use for it; the result is an argument of rpc_response_marshall.
clock_control_setters ==
    [set_ref_clk_div |-> <<Word, Word>>,
     set_processor_clk_div |-> <<Word, Word>>,
     set_switch_clk_div |-> <<Word, Word>>]

clock_control_getters ==
    [get_ref_clk_div |-> <<Word, Word>>,
     get_processor_clk_div |-> <<Word, Word>>,
     get_switch_clk_div |-> <<Word, Word>>,
     get_processor_clock |-> <<Word, Word>>,
     get_ref_clock |-> <<Word, Word>>,
     get_switch_clock |-> <<Word, Word>>]

clock_control_node ==
    [set_node_pll_ratio |-> <<Word, Word, Word, Word>>,
     get_node_pll_ratio |-> <<Word, Word, Word, Word>>,
     scale_links |-> <<Word, Word, Word, Word, Word>>,
     reset_links |-> <<Word, Word, Word>>,
     get_local_lock |-> <<Word>>,
     release_local_lock |-> <<Word>>]

clock_control_host ==
    [fcode \in DOMAIN clock_control_remote |->
        IF fcode \in DOMAIN clock_control_setters THEN clock_control_setters[fcode]
        ELSE IF fcode \in DOMAIN clock_control_getters THEN clock_control_getters[fcode]
        ELSE clock_control_node[fcode]]

-----------------------------------------------------------------------------
\* One of the functions of a driver.
CallFrom(remote, host) == \E fcode \in DOMAIN remote : CallOf(remote[fcode], host[fcode])

TablesInit ==
    \/ CallFrom(gpio_remote, gpio_host)
    \/ CallFrom(clock_control_remote, clock_control_host)
    \/ \E n \in RpcLengths :
          \/ CallFrom(qspi_flash_remote(n), qspi_flash_host(n))
          \/ CallFrom(i2c_master_remote(n), i2c_master_host(n))
          \/ CallFrom(i2s_remote(n), i2s_host(n))
          \/ CallFrom(mic_array_remote(n), mic_array_host(n))
          \/ CallFrom(uart_tx_remote(n), uart_tx_host)
          \/ \E out, in \in BOOLEAN :
                CallFrom(spi_master_remote(n, out, in), spi_master_host(n, in))

TablesSpec == (MarshalInit \/ TablesInit) /\ [][MarshalNext]_marshalVars
-----------------------------------------------------------------------------
\* A call between tiles is the call of the function, for every function of every
\* driver that client and host describe separately, and for every other list of
\* parameters: the host is given the inputs, the client the outputs, and nothing
\* is copied past the end of what was allocated for it.
RpcExact == HostSeesInputs /\ ClientGetsOutputs /\ BuffersFit
=============================================================================
